---------------------------- MODULE Spec2Model ----------------------------
(*
  Vitana Orchestrator (VTID-01175): the completion-guarantee loop of
  VitanaOrchestrator (orchestrator.py), the TaskState record (main.py),
  the domain validators (verification/validators.py) and the output scan
  of SafetyChecker (safety.py).

  One execute_task call drives one task.  Every assignment to task.status
  is a step of its own, so that each status change is a transition of the
  model.  An assignment and the _emit_event call that follows it in the
  same handler form one step.
*)
EXTENDS Integers, Sequences, FiniteSets

\* ------------------------------------------------------------------ bounds
MaxRetriesBound == 1      \* task max_retries ranges over 0..MaxRetriesBound
MaxChanges == 1           \* longest change list of a claim
NumTasks == 2             \* client tasks of the concurrent workload
MaxSubtasks == 3          \* sub-tasks a mixed task may create in one run
MaxTargetPaths == 2       \* longest target_paths list of a library call
MaxDispatches == 3        \* dispatches of a task that two execute_task calls work on
MaxBackoffRetries == 3    \* max_retries ranges over 0..MaxBackoffRetries where backoff is checked

\* ------------------------------------------------------- program constants
DefaultMaxConcurrentTasks == 5
DefaultRetryDelayMs == 10000
DefaultRetryBackoffMultiplier == 2
SecretValueMinLen == 32

\* ids of the tasks a client submits, and of all tasks
ClientIds == 1..NumTasks
TaskIds == 1..(NumTasks + MaxSubtasks)

\* ---------------------------------------------------------------- enums
TaskStatus ==
  {"pending", "routing", "dispatched", "in_progress", "verifying",
   "verification_failed", "retry_pending", "completed", "failed",
   "timeout", "cancelled"}

TaskDomain == {"frontend", "backend", "memory", "mixed"}

VerificationResult ==
  {"passed", "failed", "partial", "needs_retry", "cannot_verify"}

None == "None"

\* TaskState.is_terminal
is_terminal(ts) ==
  ts.status \in {"completed", "failed", "timeout", "cancelled"}

\* TaskState.can_retry, with the limit one too low
can_retry_off_by_one(ts) ==
  ~is_terminal(ts) /\ ts.retry_count + 1 < ts.max_retries

\* TaskState.can_retry
can_retry(ts) ==
  ~is_terminal(ts) /\ ts.retry_count < ts.max_retries

\* the retry limit, reached one retry early
retries_exhausted_early(ts) == ts.retry_count >= ts.max_retries

\* "task.retry_count > task.max_retries", in the loop and in _schedule_retry
retries_exhausted(ts) == ts.retry_count > ts.max_retries

\* ------------------------------------------------------------ workspace
(*
  A path is a record: its directory segments, the file's base name and its
  extension.  BadPath is a file_path value that is not a string (a claim
  may carry any JSON value).
*)
P(dir, base, ext) == [dir |-> dir, base |-> base, ext |-> ext]

FooTs      == P(<<"src">>, "foo", "ts")
LeakTs     == P(<<"src", "services">>, "leak", "ts")
GhostTs    == P(<<"fake", "path", "that", "doesnt">>, "exist", "ts")
UsersSql   == P(<<"supabase", "migrations">>, "001_users", "sql")
LockedTs   == P(<<"src", "routes">>, "locked", "ts")
BadPath    == P(<<>>, "not-a-string", "int")

\* the paths an adapter of the orchestrator may claim
Paths == {FooTs, LeakTs, GhostTs, UsersSql}

\* the paths of the workspace model; LockedTs is claimed to the stage gate
\* and to the CompletionVerifier only
Files == Paths \cup {LockedTs}

(*
  The files under the workspace path: whether the file exists, whether
  read_text succeeds on it, whether its mtime is earlier than the start of
  the task (stale), and what the validators' regular expressions find in its
  text.  LockedTs holds a hardcoded secret and cannot be read.
*)
Workspace ==
  [p \in Files |->
     CASE p = FooTs    -> [exists |-> TRUE,  readable |-> TRUE,  stale |-> FALSE,
                           finds |-> {}]
       [] p = LeakTs   -> [exists |-> TRUE,  readable |-> TRUE,  stale |-> FALSE,
                           finds |-> {"hardcoded_secret"}]
       [] p = GhostTs  -> [exists |-> FALSE, readable |-> FALSE, stale |-> FALSE,
                           finds |-> {}]
       [] p = UsersSql -> [exists |-> TRUE,  readable |-> TRUE,  stale |-> TRUE,
                           finds |-> {"create_table_without_rls"}]
       [] p = LockedTs -> [exists |-> TRUE,  readable |-> FALSE, stale |-> FALSE,
                           finds |-> {"hardcoded_secret"}]]

HasDir(p, d) == \E i \in 1..Len(p.dir) : p.dir[i] = d
\* "/d/" in path: the segment d is preceded by another segment
HasInnerDir(p, d) == \E i \in 2..Len(p.dir) : p.dir[i] = d

\* VitanaOrchestrator._file_exists; raises on a path that is not a string
file_exists(p) == p \in Files /\ Workspace[p].exists

\* --------------------------------------------------------- validators
\* BackendValidator._is_backend_file (".ts" is a substring of ".tsx")
is_backend_file(p) ==
  /\ ~HasDir(p, "frontend")
  /\ \/ \E d \in {"routes", "controllers", "services", "middleware", "api"} :
          HasInnerDir(p, d)
     \/ p.ext \in {"ts", "tsx", "py"}

ValidationResult(name, passed, retriable) ==
  [name |-> name, passed |-> passed, retriable |-> retriable]

\* FrontendValidator._validate_changes_impl: it raises only warnings and info
FrontendValidator(changes) == ValidationResult("frontend", TRUE, TRUE)

\* BackendValidator._validate_changes_impl; an exception of read_text is
\* logged and the file is passed over
BackendValidator(changes) ==
  LET critical == \E i \in 1..Len(changes) :
                    LET p == changes[i].file_path IN
                      /\ is_backend_file(p)
                      /\ Workspace[p].exists
                      /\ Workspace[p].readable
                      /\ Workspace[p].finds \cap {"hardcoded_secret", "sql_injection"} # {}
  IN IF critical THEN ValidationResult("backend", FALSE, FALSE)
                 ELSE ValidationResult("backend", TRUE, TRUE)

\* MemoryValidator._validate_changes_impl
MemoryValidator(changes) ==
  LET critical == \E i \in 1..Len(changes) :
                    LET p == changes[i].file_path IN
                      /\ p.ext = "sql"
                      /\ Workspace[p].exists
                      /\ Workspace[p].readable
                      /\ Workspace[p].finds \cap {"create_table_without_rls", "drop_table"} # {}
  IN IF critical THEN ValidationResult("memory", FALSE, FALSE)
                 ELSE ValidationResult("memory", TRUE, TRUE)

\* VitanaOrchestrator._get_domain_validators: no entry for the mixed domain
get_domain_validators(domain, changes) ==
  CASE domain = "frontend" -> <<FrontendValidator(changes)>>
    [] domain = "backend"  -> <<BackendValidator(changes)>>
    [] domain = "memory"   -> <<MemoryValidator(changes)>>
    [] OTHER               -> <<>>

\* --------------------------------------------------------- safety scan
(*
  An agent output is described by what SafetyChecker.check_output looks
  for: the sensitive names it mentions (matched case-insensitively, so the
  case the output uses is not recorded) and the lengths of its quoted
  [a-zA-Z0-9_-] tokens.
*)
SENSITIVE_PATTERNS ==
  {"ANTHROPIC_API_KEY", "GOOGLE_APPLICATION_CREDENTIALS",
   "AWS_SECRET_ACCESS_KEY", "DATABASE_URL", "JWT_SECRET", "PRIVATE_KEY"}

CleanOutput  == [names |-> {}, quoted |-> {}]
NamedOutput  == [names |-> {"ANTHROPIC_API_KEY"}, quoted |-> {}]
TokenOutput  == [names |-> {}, quoted |-> {SecretValueMinLen}]

Outputs == {CleanOutput, NamedOutput, TokenOutput}

\* SafetyChecker.check_output
check_output(output) ==
  LET leaked == (output.names \cap SENSITIVE_PATTERNS)
                  \cup (IF \E n \in output.quoted : n >= SecretValueMinLen
                        THEN {"potential_secret_value"} ELSE {})
  IN [safe |-> leaked = {}, blocked_items |-> leaked]

\* ---------------------------------------------------------------- strings
(*
  A Python str of the state is a TLA+ string.  Chars gives the characters of
  each string the model uses; the operators `in`, str.lower and
  fnmatch.fnmatch work on them as Python's do.
*)
Chars(s) ==
  CASE s = "Command Hub" -> <<"C", "o", "m", "m", "a", "n", "d", " ", "H", "u", "b">>
    [] s = "UI" -> <<"U", "I">>
    [] s = "CSS" -> <<"C", "S", "S">>
    [] s = "SPA" -> <<"S", "P", "A">>
    [] s = "CSP" -> <<"C", "S", "P">>
    [] s = "styles" -> <<"s", "t", "y", "l", "e", "s">>
    [] s = "orb overlay" -> <<"o", "r", "b", " ", "o", "v", "e", "r", "l", "a", "y">>
    [] s = "frontend" -> <<"f", "r", "o", "n", "t", "e", "n", "d">>
    [] s = "component" -> <<"c", "o", "m", "p", "o", "n", "e", "n", "t">>
    [] s = "layout" -> <<"l", "a", "y", "o", "u", "t">>
    [] s = "button" -> <<"b", "u", "t", "t", "o", "n">>
    [] s = "modal" -> <<"m", "o", "d", "a", "l">>
    [] s = "form" -> <<"f", "o", "r", "m">>
    [] s = "input" -> <<"i", "n", "p", "u", "t">>
    [] s = "display" -> <<"d", "i", "s", "p", "l", "a", "y">>
    [] s = "render" -> <<"r", "e", "n", "d", "e", "r">>
    [] s = "view" -> <<"v", "i", "e", "w">>
    [] s = "page" -> <<"p", "a", "g", "e">>
    [] s = "template" -> <<"t", "e", "m", "p", "l", "a", "t", "e">>
    [] s = "tailwind" -> <<"t", "a", "i", "l", "w", "i", "n", "d">>
    [] s = "web" -> <<"w", "e", "b">>
    [] s = "browser" -> <<"b", "r", "o", "w", "s", "e", "r">>
    [] s = "endpoint" -> <<"e", "n", "d", "p", "o", "i", "n", "t">>
    [] s = "api/v1" -> <<"a", "p", "i", "/", "v", "1">>
    [] s = "gateway" -> <<"g", "a", "t", "e", "w", "a", "y">>
    [] s = "controller" -> <<"c", "o", "n", "t", "r", "o", "l", "l", "e", "r">>
    [] s = "route mount" -> <<"r", "o", "u", "t", "e", " ", "m", "o", "u", "n", "t">>
    [] s = "SSE" -> <<"S", "S", "E">>
    [] s = "operator" -> <<"o", "p", "e", "r", "a", "t", "o", "r">>
    [] s = "service" -> <<"s", "e", "r", "v", "i", "c", "e">>
    [] s = "middleware" -> <<"m", "i", "d", "d", "l", "e", "w", "a", "r", "e">>
    [] s = "handler" -> <<"h", "a", "n", "d", "l", "e", "r">>
    [] s = "API" -> <<"A", "P", "I">>
    [] s = "REST" -> <<"R", "E", "S", "T">>
    [] s = "POST" -> <<"P", "O", "S", "T">>
    [] s = "GET" -> <<"G", "E", "T">>
    [] s = "PATCH" -> <<"P", "A", "T", "C", "H">>
    [] s = "DELETE" -> <<"D", "E", "L", "E", "T", "E">>
    [] s = "express" -> <<"e", "x", "p", "r", "e", "s", "s">>
    [] s = "router" -> <<"r", "o", "u", "t", "e", "r">>
    [] s = "request" -> <<"r", "e", "q", "u", "e", "s", "t">>
    [] s = "response" -> <<"r", "e", "s", "p", "o", "n", "s", "e">>
    [] s = "authentication" -> <<"a", "u", "t", "h", "e", "n", "t", "i", "c", "a", "t", "i", "o", "n">>
    [] s = "authorization" -> <<"a", "u", "t", "h", "o", "r", "i", "z", "a", "t", "i", "o", "n">>
    [] s = "CICD" -> <<"C", "I", "C", "D">>
    [] s = "deploy" -> <<"d", "e", "p", "l", "o", "y">>
    [] s = "supabase" -> <<"s", "u", "p", "a", "b", "a", "s", "e">>
    [] s = "rpc" -> <<"r", "p", "c">>
    [] s = "vectors" -> <<"v", "e", "c", "t", "o", "r", "s">>
    [] s = "qdrant" -> <<"q", "d", "r", "a", "n", "t">>
    [] s = "mem0" -> <<"m", "e", "m", "0">>
    [] s = "embedding" -> <<"e", "m", "b", "e", "d", "d", "i", "n", "g">>
    [] s = "context" -> <<"c", "o", "n", "t", "e", "x", "t">>
    [] s = "memory" -> <<"m", "e", "m", "o", "r", "y">>
    [] s = "migration" -> <<"m", "i", "g", "r", "a", "t", "i", "o", "n">>
    [] s = "database" -> <<"d", "a", "t", "a", "b", "a", "s", "e">>
    [] s = "table" -> <<"t", "a", "b", "l", "e">>
    [] s = "schema" -> <<"s", "c", "h", "e", "m", "a">>
    [] s = "index" -> <<"i", "n", "d", "e", "x">>
    [] s = "query" -> <<"q", "u", "e", "r", "y">>
    [] s = "OASIS" -> <<"O", "A", "S", "I", "S">>
    [] s = "ledger" -> <<"l", "e", "d", "g", "e", "r">>
    [] s = "tenant" -> <<"t", "e", "n", "a", "n", "t">>
    [] s = "user context" -> <<"u", "s", "e", "r", " ", "c", "o", "n", "t", "e", "x", "t">>
    [] s = "services/gateway/src/frontend/**" -> <<"s", "e", "r", "v", "i", "c", "e", "s", "/", "g", "a", "t", "e", "w", "a", "y", "/", "s", "r", "c", "/", "f", "r", "o", "n", "t", "e", "n", "d", "/", "*", "*">>
    [] s = "services/gateway/dist/frontend/**" -> <<"s", "e", "r", "v", "i", "c", "e", "s", "/", "g", "a", "t", "e", "w", "a", "y", "/", "d", "i", "s", "t", "/", "f", "r", "o", "n", "t", "e", "n", "d", "/", "*", "*">>
    [] s = "**/*.html" -> <<"*", "*", "/", "*", ".", "h", "t", "m", "l">>
    [] s = "**/*.css" -> <<"*", "*", "/", "*", ".", "c", "s", "s">>
    [] s = "**/frontend/**" -> <<"*", "*", "/", "f", "r", "o", "n", "t", "e", "n", "d", "/", "*", "*">>
    [] s = "**/web/**" -> <<"*", "*", "/", "w", "e", "b", "/", "*", "*">>
    [] s = "services/gateway/src/**" -> <<"s", "e", "r", "v", "i", "c", "e", "s", "/", "g", "a", "t", "e", "w", "a", "y", "/", "s", "r", "c", "/", "*", "*">>
    [] s = "services/**/src/**" -> <<"s", "e", "r", "v", "i", "c", "e", "s", "/", "*", "*", "/", "s", "r", "c", "/", "*", "*">>
    [] s = "**/*.ts" -> <<"*", "*", "/", "*", ".", "t", "s">>
    [] s = "**/routes/**" -> <<"*", "*", "/", "r", "o", "u", "t", "e", "s", "/", "*", "*">>
    [] s = "**/controllers/**" -> <<"*", "*", "/", "c", "o", "n", "t", "r", "o", "l", "l", "e", "r", "s", "/", "*", "*">>
    [] s = "**/services/**" -> <<"*", "*", "/", "s", "e", "r", "v", "i", "c", "e", "s", "/", "*", "*">>
    [] s = "**/middleware/**" -> <<"*", "*", "/", "m", "i", "d", "d", "l", "e", "w", "a", "r", "e", "/", "*", "*">>
    [] s = "supabase/migrations/**" -> <<"s", "u", "p", "a", "b", "a", "s", "e", "/", "m", "i", "g", "r", "a", "t", "i", "o", "n", "s", "/", "*", "*">>
    [] s = "services/agents/memory-indexer/**" -> <<"s", "e", "r", "v", "i", "c", "e", "s", "/", "a", "g", "e", "n", "t", "s", "/", "m", "e", "m", "o", "r", "y", "-", "i", "n", "d", "e", "x", "e", "r", "/", "*", "*">>
    [] s = "**/memory/**" -> <<"*", "*", "/", "m", "e", "m", "o", "r", "y", "/", "*", "*">>
    [] s = "**/*.sql" -> <<"*", "*", "/", "*", ".", "s", "q", "l">>
    [] s = ".git" -> <<".", "g", "i", "t">>
    [] s = ".env" -> <<".", "e", "n", "v">>
    [] s = ".env.local" -> <<".", "e", "n", "v", ".", "l", "o", "c", "a", "l">>
    [] s = ".env.production" -> <<".", "e", "n", "v", ".", "p", "r", "o", "d", "u", "c", "t", "i", "o", "n">>
    [] s = "credentials.json" -> <<"c", "r", "e", "d", "e", "n", "t", "i", "a", "l", "s", ".", "j", "s", "o", "n">>
    [] s = "serviceAccountKey.json" -> <<"s", "e", "r", "v", "i", "c", "e", "A", "c", "c", "o", "u", "n", "t", "K", "e", "y", ".", "j", "s", "o", "n">>
    [] s = "secrets/" -> <<"s", "e", "c", "r", "e", "t", "s", "/">>
    [] s = "node_modules/" -> <<"n", "o", "d", "e", "_", "m", "o", "d", "u", "l", "e", "s", "/">>
    [] s = "__pycache__/" -> <<"_", "_", "p", "y", "c", "a", "c", "h", "e", "_", "_", "/">>
    [] s = "" -> <<>>
    [] s = "Test" -> <<"T", "e", "s", "t">>
    [] s = "Test Task" -> <<"T", "e", "s", "t", " ", "T", "a", "s", "k">>
    [] s = "Full stack feature" -> <<"F", "u", "l", "l", " ", "s", "t", "a", "c", "k", " ", "f", "e", "a", "t", "u", "r", "e">>
    [] s = "Add UI, API endpoint, and database table" -> <<"A", "d", "d", " ", "U", "I", ",", " ", "A", "P", "I", " ", "e", "n", "d", "p", "o", "i", "n", "t", ",", " ", "a", "n", "d", " ", "d", "a", "t", "a", "b", "a", "s", "e", " ", "t", "a", "b", "l", "e">>
    [] s = "Update files" -> <<"U", "p", "d", "a", "t", "e", " ", "f", "i", "l", "e", "s">>
    [] s = "Add database migration" -> <<"A", "d", "d", " ", "d", "a", "t", "a", "b", "a", "s", "e", " ", "m", "i", "g", "r", "a", "t", "i", "o", "n">>
    [] s = "Update UI component" -> <<"U", "p", "d", "a", "t", "e", " ", "U", "I", " ", "c", "o", "m", "p", "o", "n", "e", "n", "t">>
    [] s = "Fix button styling" -> <<"F", "i", "x", " ", "b", "u", "t", "t", "o", "n", " ", "s", "t", "y", "l", "i", "n", "g">>
    [] s = "Add API endpoint" -> <<"A", "d", "d", " ", "A", "P", "I", " ", "e", "n", "d", "p", "o", "i", "n", "t">>
    [] s = "Create REST controller" -> <<"C", "r", "e", "a", "t", "e", " ", "R", "E", "S", "T", " ", "c", "o", "n", "t", "r", "o", "l", "l", "e", "r">>
    [] s = "Create Supabase table" -> <<"C", "r", "e", "a", "t", "e", " ", "S", "u", "p", "a", "b", "a", "s", "e", " ", "t", "a", "b", "l", "e">>
    [] s = "Generic task" -> <<"G", "e", "n", "e", "r", "i", "c", " ", "t", "a", "s", "k">>
    [] s = "Do something" -> <<"D", "o", " ", "s", "o", "m", "e", "t", "h", "i", "n", "g">>
    [] s = "services/gateway/src/frontend/component.tsx" -> <<"s", "e", "r", "v", "i", "c", "e", "s", "/", "g", "a", "t", "e", "w", "a", "y", "/", "s", "r", "c", "/", "f", "r", "o", "n", "t", "e", "n", "d", "/", "c", "o", "m", "p", "o", "n", "e", "n", "t", ".", "t", "s", "x">>
    [] s = "services/gateway/src/routes/api.ts" -> <<"s", "e", "r", "v", "i", "c", "e", "s", "/", "g", "a", "t", "e", "w", "a", "y", "/", "s", "r", "c", "/", "r", "o", "u", "t", "e", "s", "/", "a", "p", "i", ".", "t", "s">>
    [] s = "supabase/migrations/001_users.sql" -> <<"s", "u", "p", "a", "b", "a", "s", "e", "/", "m", "i", "g", "r", "a", "t", "i", "o", "n", "s", "/", "0", "0", "1", "_", "u", "s", "e", "r", "s", ".", "s", "q", "l">>
    [] s = "file0.ts" -> <<"f", "i", "l", "e", "0", ".", "t", "s">>
    [] s = "file1.ts" -> <<"f", "i", "l", "e", "1", ".", "t", "s">>
    [] s = "services/gateway/src/frontend/App.tsx" -> <<"s", "e", "r", "v", "i", "c", "e", "s", "/", "g", "a", "t", "e", "w", "a", "y", "/", "s", "r", "c", "/", "f", "r", "o", "n", "t", "e", "n", "d", "/", "A", "p", "p", ".", "t", "s", "x">>
    [] s = ".git/config" -> <<".", "g", "i", "t", "/", "c", "o", "n", "f", "i", "g">>
    [] s = ".ENV" -> <<".", "E", "N", "V">>
    [] s = "config/.env.local" -> <<"c", "o", "n", "f", "i", "g", "/", ".", "e", "n", "v", ".", "l", "o", "c", "a", "l">>
    [] s = "deploy/.env.production" -> <<"d", "e", "p", "l", "o", "y", "/", ".", "e", "n", "v", ".", "p", "r", "o", "d", "u", "c", "t", "i", "o", "n">>
    [] s = "config/Credentials.json" -> <<"c", "o", "n", "f", "i", "g", "/", "C", "r", "e", "d", "e", "n", "t", "i", "a", "l", "s", ".", "j", "s", "o", "n">>
    [] s = "config/serviceAccountKey.json" -> <<"c", "o", "n", "f", "i", "g", "/", "s", "e", "r", "v", "i", "c", "e", "A", "c", "c", "o", "u", "n", "t", "K", "e", "y", ".", "j", "s", "o", "n">>
    [] s = "Secrets/prod.txt" -> <<"S", "e", "c", "r", "e", "t", "s", "/", "p", "r", "o", "d", ".", "t", "x", "t">>
    [] s = "web/node_modules/x.js" -> <<"w", "e", "b", "/", "n", "o", "d", "e", "_", "m", "o", "d", "u", "l", "e", "s", "/", "x", ".", "j", "s">>
    [] s = "app/__pycache__/m.pyc" -> <<"a", "p", "p", "/", "_", "_", "p", "y", "c", "a", "c", "h", "e", "_", "_", "/", "m", ".", "p", "y", "c">>
    [] s = "docs/index.html" -> <<"d", "o", "c", "s", "/", "i", "n", "d", "e", "x", ".", "h", "t", "m", "l">>
    [] s = "README.md" -> <<"R", "E", "A", "D", "M", "E", ".", "m", "d">>

\* str.lower, one character
LowerChar(c) ==
  CASE c = "A" -> "a" [] c = "B" -> "b" [] c = "C" -> "c" [] c = "D" -> "d"
    [] c = "E" -> "e" [] c = "F" -> "f" [] c = "G" -> "g" [] c = "H" -> "h"
    [] c = "I" -> "i" [] c = "J" -> "j" [] c = "K" -> "k" [] c = "L" -> "l"
    [] c = "M" -> "m" [] c = "N" -> "n" [] c = "O" -> "o" [] c = "P" -> "p"
    [] c = "Q" -> "q" [] c = "R" -> "r" [] c = "S" -> "s" [] c = "T" -> "t"
    [] c = "U" -> "u" [] c = "V" -> "v" [] c = "W" -> "w" [] c = "X" -> "x"
    [] c = "Y" -> "y" [] c = "Z" -> "z"
    [] OTHER -> c

\* str.lower
Lower(q) == [i \in 1..Len(q) |-> LowerChar(q[i])]

\* "sub in text" of two Python strings
Contains(text, sub) ==
  \E i \in 0..(Len(text) - Len(sub)) : SubSeq(text, i + 1, i + Len(sub)) = sub

\* fnmatch.fnmatch on a POSIX system, for patterns of literal characters and
\* "*": a "*" matches any run of characters, "/" included; fnmatch.translate
\* compresses consecutive "*" into one
RECURSIVE fnmatch(_, _)
fnmatch(name, pat) ==
  IF pat = <<>> THEN name = <<>>
  ELSE IF Head(pat) = "*"
    THEN IF Len(pat) > 1 /\ pat[2] = "*"
           THEN fnmatch(name, Tail(pat))
           ELSE fnmatch(name, Tail(pat)) \/ (name # <<>> /\ fnmatch(Tail(name), pat))
  ELSE name # <<>> /\ Head(name) = Head(pat) /\ fnmatch(Tail(name), Tail(pat))

\* main._path_matches_pattern
path_matches_pattern(path, pattern) ==
  IF Chars(pattern) # <<>> /\ Head(Chars(pattern)) = "!"
    THEN ~fnmatch(Chars(path), Tail(Chars(pattern)))
    ELSE fnmatch(Chars(path), Chars(pattern))

\* main.DOMAIN_KEYWORDS
DOMAIN_KEYWORDS ==
  [d \in {"frontend", "backend", "memory"} |->
     CASE d = "frontend" ->
            {"Command Hub", "UI", "CSS", "SPA", "CSP", "styles",
             "orb overlay", "frontend", "component", "layout", "button",
             "modal", "form", "input", "display", "render", "view", "page",
             "template", "tailwind", "web", "browser"}
       [] d = "backend" ->
            {"endpoint", "api/v1", "gateway", "controller", "route mount",
             "SSE", "operator", "service", "middleware", "handler", "API",
             "REST", "POST", "GET", "PATCH", "DELETE", "express", "router",
             "request", "response", "authentication", "authorization",
             "CICD", "deploy"}
       [] d = "memory" ->
            {"supabase", "rpc", "vectors", "qdrant", "mem0", "embedding",
             "context", "memory", "migration", "database", "table",
             "schema", "index", "query", "OASIS", "ledger", "tenant",
             "user context"}]

\* main.DOMAIN_PATH_PATTERNS
DOMAIN_PATH_PATTERNS ==
  [d \in {"frontend", "backend", "memory"} |->
     CASE d = "frontend" ->
            <<"services/gateway/src/frontend/**",
              "services/gateway/dist/frontend/**",
              "**/*.html",
              "**/*.css",
              "**/frontend/**",
              "**/web/**">>
       [] d = "backend" ->
            <<"services/gateway/src/**",
              "services/**/src/**",
              "**/*.ts",
              "**/routes/**",
              "**/controllers/**",
              "**/services/**",
              "**/middleware/**">>
       [] d = "memory" ->
            <<"supabase/migrations/**",
              "services/agents/memory-indexer/**",
              "**/memory/**",
              "**/*.sql">>]

\* the characters of an f-string, given as the list of its pieces
RECURSIVE Format(_)
Format(pieces) ==
  IF pieces = <<>> THEN <<>> ELSE Chars(Head(pieces)) \o Format(Tail(pieces))

\* VitanaOrchestrator._is_domain_relevant: keywords of the domain in the
\* lowercased title and description; the target paths are not read
is_domain_relevant(ts, domain) ==
  LET text == Lower(Format(ts.title) \o <<" ">> \o Chars(ts.description))
  IN \E kw \in DOMAIN_KEYWORDS[domain] : Contains(text, Lower(Chars(kw)))

\* VitanaOrchestrator._path_matches_domain
path_matches_domain(path, domain) ==
  \E k \in 1..Len(DOMAIN_PATH_PATTERNS[domain]) :
    path_matches_pattern(path, DOMAIN_PATH_PATTERNS[domain][k])

\* detect_domain, "Check keywords": one point for every keyword of the
\* domain found in f"{title} {description}".lower()
keyword_score(title, description, domain) ==
  LET text == Lower(Chars(title) \o <<" ">> \o Chars(description))
  IN Cardinality({kw \in DOMAIN_KEYWORDS[domain] : Contains(text, Lower(Chars(kw)))})

\* detect_domain, "Check path patterns": two points for every pair of a
\* target path and a pattern of the domain that matches it
path_score(target_paths, domain) ==
  2 * Cardinality({ik \in (1..Len(target_paths)) \X (1..Len(DOMAIN_PATH_PATTERNS[domain])) :
                     path_matches_pattern(target_paths[ik[1]],
                                          DOMAIN_PATH_PATTERNS[domain][ik[2]])})

\* detect_domain, the scores dict
domain_scores(title, description, target_paths) ==
  [d \in {"frontend", "backend", "memory"} |->
     keyword_score(title, description, d) + path_score(target_paths, d)]

\* detect_domain deciding by the highest score; memory, then backend, then
\* frontend win a tie
detect_domain_by_top_score(title, description, target_paths) ==
  LET scores == domain_scores(title, description, target_paths)
      top(d) == \A e \in DOMAIN scores : scores[e] <= scores[d]
  IN IF \A d \in DOMAIN scores : scores[d] = 0 THEN "backend"
     ELSE IF top("memory") THEN "memory"
     ELSE IF top("backend") THEN "backend"
     ELSE "frontend"

\* main.detect_domain; target_paths = None is the empty list
detect_domain(title, description, target_paths) ==
  LET scores == domain_scores(title, description, target_paths)
  IN IF scores["memory"] > 0
       THEN (IF scores["backend"] > 0 \/ scores["frontend"] > 0
               THEN "mixed" ELSE "memory")
     ELSE IF scores["backend"] > 0
       THEN (IF scores["frontend"] > 0 THEN "mixed" ELSE "backend")
     ELSE IF scores["frontend"] > 0
       THEN "frontend"
     ELSE "backend"

\* _dispatch_mixed_task: [p for p in task.target_paths
\*                         if self._path_matches_domain(p, stage_domain)]
RECURSIVE paths_of_domain(_, _)
paths_of_domain(paths, domain) ==
  IF paths = <<>> THEN <<>>
  ELSE (IF path_matches_domain(Head(paths), domain) THEN <<Head(paths)>> ELSE <<>>)
         \o paths_of_domain(Tail(paths), domain)

\* -------------------------------------------------------- SafetyChecker
FORBIDDEN_PATHS ==
  {".git", ".env", ".env.local", ".env.production", "credentials.json",
   "serviceAccountKey.json", "secrets/", "node_modules/", "__pycache__/"}

MAX_FILES_DEFAULT == 20
MAX_DIRECTORIES_DEFAULT == 10

\* SafetyChecker._is_forbidden_path: the path is lowercased, the entries of
\* the forbidden set are not
is_forbidden_path(path) ==
  \E forbidden \in FORBIDDEN_PATHS : Contains(Lower(Chars(path)), Chars(forbidden))

\* SafetyChecker._check_paths, the list of blocked paths
RECURSIVE blocked_paths(_)
blocked_paths(paths) ==
  IF paths = <<>> THEN <<>>
  ELSE (IF is_forbidden_path(Head(paths)) THEN <<Head(paths)>> ELSE <<>>)
         \o blocked_paths(Tail(paths))

\* SafetyChecker._check_paths
check_paths(paths) ==
  [safe |-> blocked_paths(paths) = <<>>, blocked_items |-> blocked_paths(paths)]

\* the directory _check_scope counts for a path: parts[0] of a path of one
\* part, the parts before the last one joined by "/" otherwise
DirectoryOf(path) ==
  LET c == Chars(path)
      slashes == {i \in 1..Len(c) : c[i] = "/"}
  IN IF slashes = {} THEN c
     ELSE SubSeq(c, 1, (CHOOSE i \in slashes : \A j \in slashes : j <= i) - 1)

\* dict.get(key, default) on task.change_budget; None is the empty dict
BudgetGet(budget, key, default) ==
  IF key \in DOMAIN budget THEN budget[key] ELSE default

\* SafetyChecker._check_scope
check_scope(task) ==
  LET max_files == BudgetGet(task.change_budget, "max_files", MAX_FILES_DEFAULT)
      max_dirs == BudgetGet(task.change_budget, "max_directories", MAX_DIRECTORIES_DEFAULT)
      directories == {DirectoryOf(task.target_paths[i]) :
                        i \in {k \in 1..Len(task.target_paths) : task.target_paths[k] # ""}}
  IN IF Len(task.target_paths) > max_files
       THEN [safe |-> FALSE, blocked_items |-> <<>>]
     ELSE IF Cardinality(directories) > max_dirs
       THEN [safe |-> FALSE, blocked_items |-> <<>>]
     ELSE [safe |-> TRUE, blocked_items |-> <<>>]

\* SafetyChecker.check_task
check_task(task) ==
  IF ~check_paths(task.target_paths).safe THEN check_paths(task.target_paths)
  ELSE IF ~check_scope(task).safe THEN check_scope(task)
  ELSE [safe |-> TRUE, blocked_items |-> <<>>]

\* ---------------------------------------------------------------- claims
ChangeActions == {"modified", "deleted"}

Change == [file_path : Paths \cup {BadPath}, action : ChangeActions]

RECURSIVE SeqsUpTo(_, _)
SeqsUpTo(S, n) ==
  IF n = 0 THEN {<<>>}
  ELSE LET shorter == SeqsUpTo(S, n - 1)
       IN shorter \cup {Append(q, x) : q \in {r \in shorter : Len(r) = n - 1}, x \in S}

Artifacts == {"report"}

\* the dict an adapter's wait_for_completion returns
Claims ==
  [changes : SeqsUpTo(Change, MaxChanges),
   artifacts : SUBSET Artifacts,
   output : Outputs]

NoClaim == [none |-> TRUE]

\* ------------------------------------------------- _verify_completion
VerificationOutcome(result, reason, validation) ==
  [result |-> result, reason |-> reason, validation |-> validation]

NoValidation == ValidationResult(None, TRUE, TRUE)
NoOutcome == VerificationOutcome(None, None, NoValidation)

\* VitanaOrchestrator._run_verification_tests
run_verification_tests == [passed |-> TRUE]

(*
  The five checks of _verify_completion, in their order.  A file_path that
  is not a string makes _file_exists raise inside the try block, whatever
  the other entries of the change list are.
*)
verify_completion(ts, c) ==
  LET changes == c.changes
      idx == 1..Len(changes)
      validators == get_domain_validators(ts.domain, changes)
      failing == {k \in 1..Len(validators) : ~validators[k].passed}
      first == CHOOSE k \in failing : \A j \in failing : k <= j
  IN
  IF changes = <<>> /\ ts.domain # "memory"
    THEN VerificationOutcome("failed", "no_changes", NoValidation)
  ELSE IF \E i \in idx : changes[i].file_path = BadPath
    THEN VerificationOutcome("cannot_verify", "verification_error", NoValidation)
  ELSE IF \E i \in idx : ~file_exists(changes[i].file_path)
    THEN VerificationOutcome("failed", "missing_files", NoValidation)
  ELSE IF failing # {}
    THEN VerificationOutcome("failed", "validator", validators[first])
  ELSE IF ts.expected_artifacts \ c.artifacts # {}
    THEN VerificationOutcome("partial", "missing_artifacts", NoValidation)
  ELSE IF ~run_verification_tests.passed
    THEN VerificationOutcome("failed", "tests", NoValidation)
  ELSE VerificationOutcome("passed", "all_checks_passed", NoValidation)

\* ------------------------------------------- validators, by domain
\* validators.get_validators_for_domain: the mixed domain runs all three
get_validators_for_domain(domain, changes) ==
  CASE domain = "frontend" -> <<FrontendValidator(changes)>>
    [] domain = "backend"  -> <<BackendValidator(changes)>>
    [] domain = "memory"   -> <<MemoryValidator(changes)>>
    [] OTHER               -> <<FrontendValidator(changes),
                                BackendValidator(changes),
                                MemoryValidator(changes)>>

\* _validate_changes_impl: "workspace_path / file_path" is evaluated for
\* every change, outside the try block, and raises TypeError on a file_path
\* that is not a string
validator_raises(changes) ==
  \E i \in 1..Len(changes) : changes[i].file_path = BadPath

\* the changes a file check probes: "if not file_path or action == 'deleted':
\* continue"
probed(changes) == {i \in 1..Len(changes) : changes[i].action # "deleted"}

\* a change as it is claimed to the stage gate and to the CompletionVerifier
GateChange == [file_path : Files \cup {BadPath}, action : ChangeActions]

\* ------------------------------------------------ CompletionVerifier
\* CompletionVerifier._run_tests
run_tests == [passed |-> TRUE]

\* VerificationConfig: the toggles of the five stages
VerificationConfigs ==
  [verify_files_exist : BOOLEAN, verify_files_modified : BOOLEAN,
   run_domain_validators : BOOLEAN, run_tests : BOOLEAN,
   verify_artifacts : BOOLEAN]

DefaultVerificationConfig ==
  [verify_files_exist |-> TRUE, verify_files_modified |-> TRUE,
   run_domain_validators |-> TRUE, run_tests |-> TRUE,
   verify_artifacts |-> TRUE]

\* the keys of outcome.checks, in the order of the stages of verify
verify_stages ==
  <<"files_exist", "files_modified", "domain_validation", "tests", "artifacts">>

(*
  One stage of CompletionVerifier.verify: the CheckResult of
  _verify_files_exist, _verify_files_modified, _run_domain_validators,
  _run_tests or _verify_artifacts, or raised when the stage raises.
  "workspace_path / file_path" raises on a file_path that is not a string,
  for the changes the stage probes; _run_tests calls file_path.endswith on
  every change; a validator's exception is caught and counted as a failure.
*)
verify_stage(stage, ts, c, started) ==
  LET changes == c.changes
      live == probed(changes)
      validators == get_validators_for_domain(ts.domain, changes)
      failures == IF validator_raises(changes) THEN 1..Len(validators)
                  ELSE {k \in 1..Len(validators) : ~validators[k].passed}
      check(passed, reason) == [raised |-> FALSE, passed |-> passed, reason |-> reason]
      raise == [raised |-> TRUE, passed |-> FALSE, reason |-> "verification_error"]
  IN CASE stage = "files_exist" ->
            IF \E i \in live : changes[i].file_path = BadPath THEN raise
            ELSE IF \E i \in live : ~file_exists(changes[i].file_path)
              THEN check(FALSE, "missing_files")
            ELSE check(TRUE, "files_exist")
       [] stage = "files_modified" ->
            IF ~started THEN check(TRUE, "no_start_time")
            ELSE IF \E i \in live : changes[i].file_path = BadPath THEN raise
            ELSE IF \E i \in live : /\ file_exists(changes[i].file_path)
                                    /\ Workspace[changes[i].file_path].stale
              THEN check(FALSE, "not_modified")
            ELSE check(TRUE, "files_modified")
       [] stage = "domain_validation" ->
            IF failures # {} THEN check(FALSE, "domain_validation")
            ELSE check(TRUE, "domain_validation_passed")
       [] stage = "tests" ->
            IF \E i \in 1..Len(changes) : changes[i].file_path = BadPath THEN raise
            ELSE check(run_tests.passed, "tests")
       [] OTHER ->
            IF ts.expected_artifacts \ c.artifacts # {}
              THEN check(FALSE, "missing_artifacts")
            ELSE check(TRUE, "artifacts")

\* the stages config enables, as positions in verify_stages
enabled_stages(cfg) ==
  {k \in 1..Len(verify_stages) :
     CASE k = 1 -> cfg.verify_files_exist
       [] k = 2 -> cfg.verify_files_modified
       [] k = 3 -> cfg.run_domain_validators
       [] k = 4 -> cfg.run_tests
       [] OTHER -> cfg.verify_artifacts}

\* a verify that runs every enabled stage and reports the first failure
verify_every_stage(cfg, ts, c, started) ==
  LET on == enabled_stages(cfg)
      res(k) == verify_stage(verify_stages[k], ts, c, started)
      stops == {k \in on : ~res(k).passed}
      first == CHOOSE k \in stops : \A j \in stops : k <= j
      recorded == {k \in on : ~res(k).raised}
      entry[k \in 0..Len(verify_stages)] ==
        IF k = 0 THEN <<>>
        ELSE entry[k - 1] \o
               (IF k \in recorded
                  THEN <<[stage |-> verify_stages[k], passed |-> res(k).passed]>>
                  ELSE <<>>)
      result == IF stops = {} THEN "passed"
                ELSE IF res(first).raised THEN "cannot_verify"
                ELSE IF verify_stages[first] = "artifacts" THEN "partial"
                ELSE "failed"
  IN [result |-> result,
      reason |-> IF stops = {} THEN "all_checks_passed" ELSE res(first).reason,
      validation |-> NoValidation,
      checks |-> entry[Len(verify_stages)]]

(*
  CompletionVerifier.verify under the VerificationConfig cfg: the enabled
  stages run in their order up to the first that fails or raises.  checks
  lists outcome.checks in insertion order; a stage that raises has no
  entry.  task.metadata holds no "run_tests" key.
*)
verifier_verify(cfg, ts, c, started) ==
  LET on == enabled_stages(cfg)
      res(k) == verify_stage(verify_stages[k], ts, c, started)
      stops == {k \in on : ~res(k).passed}
      first == CHOOSE k \in stops : \A j \in stops : k <= j
      recorded == {k \in on : stops = {} \/ k < first
                                 \/ (k = first /\ ~res(k).raised)}
      entry[k \in 0..Len(verify_stages)] ==
        IF k = 0 THEN <<>>
        ELSE entry[k - 1] \o
               (IF k \in recorded
                  THEN <<[stage |-> verify_stages[k], passed |-> res(k).passed]>>
                  ELSE <<>>)
      result == IF stops = {} THEN "passed"
                ELSE IF res(first).raised THEN "cannot_verify"
                ELSE IF verify_stages[first] = "artifacts" THEN "partial"
                ELSE "failed"
  IN [result |-> result,
      reason |-> IF stops = {} THEN "all_checks_passed" ELSE res(first).reason,
      validation |-> NoValidation,
      checks |-> entry[Len(verify_stages)]]

\* -------------------------------------------- VerificationStageGate
(*
  StageGateResult.  The name of a check is the list of the pieces of its
  f-string: f"domain_{domain.value}" is <<"domain_", d>>.  The reason is the
  kind of the message.  duration_ms and details are left out.
*)
StageGateResult0 ==
  [passed |-> FALSE,
   verification_result |-> "cannot_verify",
   reason |-> "not_completed",
   checks_run |-> <<>>,
   checks_passed |-> <<>>,
   checks_failed |-> <<>>,
   recommended_action |-> "none",
   oasis_event_id |-> None]

\* "result.checks_run.append(name)"
CheckRun(r, name) == [r EXCEPT !.checks_run = Append(@, name)]

\* "result.checks_passed.append(name)"
CheckPassed(r, name) == [r EXCEPT !.checks_passed = Append(@, name)]

\* a failed check of verify: the four assignments before the return
CheckFailed(r, name, why, action) ==
  [r EXCEPT !.checks_failed = Append(@, name),
            !.reason = why,
            !.verification_result = "failed",
            !.recommended_action = action]

\* verify, except Exception: the lists keep what the checks had written
CheckRaised(r) ==
  [r EXCEPT !.verification_result = "cannot_verify",
            !.reason = "verification_error",
            !.recommended_action = "manual_review"]

\* VerificationStageGate._run_related_tests
run_related_tests == [passed |-> TRUE]

\* the arguments of VerificationStageGate.verify; started_at is None, a
\* datetime without a time zone or, from a timestamp with "Z" or an offset,
\* a datetime with one
GateArgs ==
  [domain : TaskDomain,
   claimed_changes : SeqsUpTo(GateChange, MaxChanges),
   claimed_output : Outputs,
   started_at : {None, "naive", "aware"}]

\* the safety check of verify with a leak answered like a missing file: the
\* later checks still run and the action is retry
stage_gate_checks_lenient(a) ==
  LET changes == a.claimed_changes
      r1 == CheckRun(StageGateResult0, <<"safety_output">>)
      r2 == CheckRun(IF check_output(a.claimed_output).safe
                       THEN CheckPassed(r1, <<"safety_output">>) ELSE r1,
                     <<"files_exist">>)
  IN IF \E i \in probed(changes) : changes[i].file_path = BadPath
       THEN CheckRaised(r2)
     ELSE IF \E i \in probed(changes) : ~file_exists(changes[i].file_path)
       THEN CheckFailed(r2, <<"files_exist">>, "missing_files", "retry")
     ELSE IF ~check_output(a.claimed_output).safe
       THEN CheckFailed(r2, <<"safety_output">>, "safety", "retry")
     ELSE [CheckPassed(r2, <<"files_exist">>) EXCEPT
             !.passed = TRUE, !.verification_result = "passed",
             !.reason = "all_checks_passed", !.recommended_action = "complete"]

(*
  The checks of VerificationStageGate.verify, from the first append to
  checks_run up to the call of _emit_verification_complete, with the default
  StageGateConfig (every check enabled).  Comparing a file's mtime, which
  has no time zone, with a started_at that has one raises TypeError.
*)
stage_gate_checks(a) ==
  LET changes == a.claimed_changes
      d == a.domain
      live == probed(changes)
      timed == a.started_at # None
      validators == get_validators_for_domain(d, changes)
      failing == {k \in 1..Len(validators) : ~validators[k].passed}
      first == CHOOSE k \in failing : \A j \in failing : k <= j
      r1 == CheckRun(StageGateResult0, <<"safety_output">>)
      r2 == CheckRun(CheckPassed(r1, <<"safety_output">>), <<"files_exist">>)
      r2ok == CheckPassed(r2, <<"files_exist">>)
      r3 == IF timed THEN CheckRun(r2ok, <<"files_modified">>) ELSE r2ok
      r3ok == IF timed THEN CheckPassed(r3, <<"files_modified">>) ELSE r3
      r4 == CheckRun(r3ok, <<"domain_", d>>)
      r5 == CheckRun(CheckPassed(r4, <<"domain_", d>>), <<"tests">>)
  IN
  IF ~check_output(a.claimed_output).safe
    THEN CheckFailed(r1, <<"safety_output">>, "safety", "fail")
  ELSE IF \E i \in live : changes[i].file_path = BadPath
    THEN CheckRaised(r2)
  ELSE IF \E i \in live : ~file_exists(changes[i].file_path)
    THEN CheckFailed(r2, <<"files_exist">>, "missing_files", "retry")
  ELSE IF a.started_at = "aware" /\ live # {}
    THEN CheckRaised(r3)
  ELSE IF timed /\ \E i \in live : Workspace[changes[i].file_path].stale
    THEN CheckFailed(r3, <<"files_modified">>, "not_modified", "retry")
  ELSE IF validator_raises(changes)
    THEN CheckRaised(r4)
  ELSE IF failing # {}
    THEN CheckFailed(r4, <<"domain_", d, "_", validators[first].name>>, "validator",
                     IF validators[first].retriable THEN "retry" ELSE "fail")
  ELSE IF ~run_related_tests.passed
    THEN CheckFailed(r5, <<"tests">>, "tests", "retry")
  ELSE [CheckPassed(r5, <<"tests">>) EXCEPT
          !.passed = TRUE, !.verification_result = "passed",
          !.reason = "all_checks_passed", !.recommended_action = "complete"]

\* the ways the POST of _emit_oasis_event ends
DeliveryOutcomes == {"ok", "non200", "timeout", "exception"}

\* VerificationStageGate._emit_oasis_event: the value it returns for the
\* event with the uuid rid; a failed delivery is logged and gives None
emit_oasis_event(rid, delivery) == IF delivery = "ok" THEN rid ELSE None

\* ------------------------------------------------------------- records
(*
  TaskConfig, the fields read by the orchestrator.  vtid and title are lists
  of the pieces of an f-string: a sub-task has the vtid
  f"{task.vtid}-{stage_domain.value}" and the title
  f"[{stage_domain.value}] {task.title}".  change_budget is a dict; None is
  the empty dict.  expected_artifacts is metadata["expected_artifacts"].
*)
TaskConfigs ==
  [vtid : {<<"VTID-01234">>},
   title : {<<"Test Task">>},
   description : {""},
   domain : TaskDomain \ {"mixed"},
   target_paths : {<<>>},
   change_budget : {<<>>},
   max_retries : 0..MaxRetriesBound,
   expected_artifacts : SUBSET Artifacts]

\* TaskConfig.to_task_state
to_task_state(cfg) ==
  [status |-> "pending",
   vtid |-> cfg.vtid,
   title |-> cfg.title,
   description |-> cfg.description,
   domain |-> cfg.domain,
   target_paths |-> cfg.target_paths,
   change_budget |-> cfg.change_budget,
   max_retries |-> cfg.max_retries,
   expected_artifacts |-> cfg.expected_artifacts,
   retry_count |-> 0,
   retry_reasons |-> <<>>,
   verification_attempts |-> 0,
   verification_result |-> None,
   result |-> NoClaim,
   error |-> None,
   error_history |-> <<>>]

NoTask == [status |-> None]

\* OrchestratorConfig, the fields read by the orchestrator; adapters is the
\* set of keys of VitanaOrchestrator._adapters
OrchestratorConfigs ==
  [verification_required : BOOLEAN,
   auto_retry_on_verification_failure : BOOLEAN,
   enable_preflight_checks : BOOLEAN,
   enable_postflight_validation : BOOLEAN,
   enable_oasis_events : {TRUE},
   max_concurrent_tasks : {DefaultMaxConcurrentTasks} \cup 1..(NumTasks - 1),
   retry_delay_ms : {DefaultRetryDelayMs},
   retry_backoff_multiplier : {DefaultRetryBackoffMultiplier},
   adapters : {{}, {"default"}}]

\* ------------------------------------------------------------- state
VARIABLES
  config,     \* the OrchestratorConfig and the registered adapters
  env,        \* what the client submits and what the adapters may claim
  tasks,      \* VitanaOrchestrator._tasks: task id -> TaskState
  pc,         \* where the execute_task call of each task stands
  claim,      \* the result of _wait_for_completion in the running call
  outcome,    \* the VerificationOutcome of the latest _verify_completion
  reason,     \* the reason handed to _schedule_retry
  emitted,    \* per task, the events passed to _emit_event, in order
  adapter_calls, \* per task, the adapter methods the orchestrator has called
  subtask,    \* _dispatch_mixed_task: the sub-task the call awaits, 0 if none
  gate,       \* a call of VerificationStageGate.verify and the events it posts
  call,       \* a call of a function of the library: its arguments and result
  sleeps,     \* per call, the delays in ms _schedule_retry has slept, in order
  handler_calls  \* per task, the runs of registered event handlers, in order

vars ==
  <<config, env, tasks, pc, claim, outcome, reason, emitted, adapter_calls,
    subtask, gate, call, sleeps, handler_calls>>

\* the execute_task call of t has started and has neither returned nor raised
InFlight(t) == pc[t] \notin {"unsubmitted", "idle", "returned", "raised", "cancelled"}

\* VitanaOrchestrator._emit_oasis_event: the name recorded in task.oasis_events
oasis_name(e) == <<"vtid.stage.orchestrator", e>>

\* TaskState.oasis_events
oasis_events(t) ==
  IF config.enable_oasis_events
    THEN [i \in 1..Len(emitted[t]) |-> oasis_name(emitted[t][i])]
    ELSE <<>>

Count(q, e) == Cardinality({i \in 1..Len(q) : q[i] = e})

TerminalEvents == {"task.completed", "task.failed", "task.timeout", "task.cancelled"}

CountIn(q, S) == Cardinality({i \in 1..Len(q) : q[i] \in S})

\* no call of VerificationStageGate.verify has been made
GateIdle == [pc |-> "idle", args |-> None, result |-> StageGateResult0, posts |-> <<>>]

\* no function of the library has been called
NoCall == [fn |-> None, args |-> None, result |-> None]

\* ---------------------------------------------------------------- Init
InitCommon ==
  /\ tasks = [t \in TaskIds |-> NoTask]
  /\ pc = [t \in TaskIds |-> "unsubmitted"]
  /\ claim = [t \in TaskIds |-> NoClaim]
  /\ outcome = [t \in TaskIds |-> NoOutcome]
  /\ reason = [t \in TaskIds |-> None]
  /\ emitted = [t \in TaskIds |-> <<>>]
  /\ adapter_calls = [t \in TaskIds |-> <<>>]
  /\ subtask = [t \in TaskIds |-> 0]
  /\ gate = GateIdle
  /\ call = NoCall
  /\ sleeps = [t \in TaskIds |-> <<>>]
  /\ handler_calls = [t \in TaskIds |-> <<>>]

\* a claim of work that was not done: every file_path is a string and
\* some change that is not a deletion names a file missing from the workspace
FalseCompletion(c) ==
  /\ \A i \in 1..Len(c.changes) : c.changes[i].file_path \in Paths
  /\ \E i \in 1..Len(c.changes) :
       /\ c.changes[i].action # "deleted"
       /\ ~Workspace[c.changes[i].file_path].exists

\* an adapter that may return any claim, time out, or raise
AnyAdapter == [claims |-> Claims, faults |-> {"timeout", "error"}]

\* MockAdapter(success_rate=1.0, false_completion_rate=1.0): every wait
\* returns a false completion
FalseCompletionAdapter ==
  [claims |-> {c \in Claims : FalseCompletion(c)}, faults |-> {}]

\* CrewAIAdapter.wait_for_completion without a pending job, on a failed job,
\* on a poll timeout or on an exception: {"success": False, "error": ...}.
\* The dict has no changes, artifacts or output; the fields hold what
\* .get() returns for the missing keys
AdapterFailure ==
  [changes |-> <<>>, artifacts |-> {}, output |-> CleanOutput, success |-> FALSE]

\* one client task, any configuration, any adapter behaviour
Init ==
  /\ InitCommon
  /\ config \in {c \in OrchestratorConfigs :
                   /\ c.enable_preflight_checks = c.enable_postflight_validation
                   /\ c.max_concurrent_tasks = DefaultMaxConcurrentTasks}
  /\ \E a \in {AnyAdapter, FalseCompletionAdapter,
                [claims |-> {AdapterFailure}, faults |-> {}]} :
       env = [ids |-> {1}, task_configs |-> TaskConfigs,
              claims |-> a.claims, faults |-> a.faults,
            handlers |-> <<>>, recalls |-> <<>>]

\* NumTasks client tasks submitted to one orchestrator whose limit is below
\* NumTasks; a small workload
InitConc ==
  /\ InitCommon
  /\ config \in {c \in OrchestratorConfigs :
                   /\ c.auto_retry_on_verification_failure
                   /\ c.enable_preflight_checks
                   /\ c.enable_postflight_validation
                   /\ c.adapters = {"default"}
                   /\ c.max_concurrent_tasks < NumTasks}
  /\ env = [ids |-> ClientIds,
            task_configs |->
              {c \in TaskConfigs :
                 /\ c.domain = "backend"
                 /\ \/ c.max_retries = 1 /\ c.expected_artifacts = {}
                    \/ c.max_retries = 0 /\ c.expected_artifacts = Artifacts},
            claims |->
              {[changes |-> <<[file_path |-> p, action |-> "modified"]>>,
                artifacts |-> {}, output |-> CleanOutput] : p \in {FooTs, GhostTs, BadPath}},
            faults |-> {"timeout", "error"},
            handlers |-> <<>>, recalls |-> <<>>]

\* target paths of the three domains
AllDomainPaths ==
  <<"services/gateway/src/frontend/component.tsx",
    "services/gateway/src/routes/api.ts",
    "supabase/migrations/001_users.sql">>

\* the tasks of the mixed workload: mixed tasks whose text names all three
\* domains, none, or one, and backend tasks that fail SafetyChecker.check_task
MixedTaskConfigs ==
  LET base == [vtid |-> <<"VTID-01234">>, title |-> <<"Test">>, description |-> "",
               domain |-> "backend", target_paths |-> <<>>, change_budget |-> <<>>,
               max_retries |-> 0, expected_artifacts |-> {}]
  IN {[base EXCEPT !.domain = "mixed", !.title = <<"Full stack feature">>,
                   !.description = "Add UI, API endpoint, and database table",
                   !.target_paths = AllDomainPaths],
      [base EXCEPT !.domain = "mixed", !.title = <<"Update files">>,
                   !.target_paths = AllDomainPaths],
      [base EXCEPT !.domain = "mixed", !.title = <<"Add database migration">>,
                   !.target_paths = <<"supabase/migrations/001_users.sql">>,
                   !.max_retries = 1, !.expected_artifacts = Artifacts],
      [base EXCEPT !.target_paths = <<".env">>, !.max_retries = 1],
      [base EXCEPT !.target_paths = <<"file0.ts", "file1.ts">>,
                   !.change_budget = [k \in {"max_files"} |-> 1]]}

\* one client task of the mixed workload; adapters for every domain, or for
\* the three plain domains only
InitMixed ==
  /\ InitCommon
  /\ config \in {[c EXCEPT !.adapters = a] :
                   c \in {c \in OrchestratorConfigs :
                            /\ c.auto_retry_on_verification_failure
                            /\ c.enable_preflight_checks
                            /\ c.enable_postflight_validation
                            /\ c.adapters = {"default"}
                            /\ c.max_concurrent_tasks = DefaultMaxConcurrentTasks},
                   a \in {{"default"}, {"frontend", "backend", "memory"}}}
  /\ env = [ids |-> {1},
            task_configs |-> MixedTaskConfigs,
            claims |->
              {[changes |-> <<[file_path |-> p, action |-> "modified"]>>,
                artifacts |-> {}, output |-> CleanOutput] : p \in {FooTs, GhostTs, BadPath}},
            faults |-> {"timeout", "error"},
            handlers |-> <<>>, recalls |-> <<>>]

\* one mixed task whose text names the backend and the memory domain and
\* which may be retried once; adapters for every
\* domain, or for the three plain domains only
InitMixedRetry ==
  /\ InitCommon
  /\ config \in {[c EXCEPT !.adapters = a] :
                   c \in {c \in OrchestratorConfigs :
                            /\ c.auto_retry_on_verification_failure
                            /\ c.enable_preflight_checks
                            /\ c.enable_postflight_validation
                            /\ c.adapters = {"default"}
                            /\ c.max_concurrent_tasks = DefaultMaxConcurrentTasks},
                   a \in {{"default"}, {"frontend", "backend", "memory"}}}
  /\ env = [ids |-> {1},
            task_configs |->
              {[vtid |-> <<"VTID-01234">>, title |-> <<"Add API endpoint">>,
                description |-> "Add database migration", domain |-> "mixed",
                target_paths |-> <<"services/gateway/src/routes/api.ts",
                                   "supabase/migrations/001_users.sql">>,
                change_budget |-> <<>>, max_retries |-> 1,
                expected_artifacts |-> Artifacts]},
            claims |->
              {[changes |-> <<[file_path |-> p, action |-> "modified"]>>,
                artifacts |-> {}, output |-> CleanOutput] : p \in {FooTs, GhostTs}},
            faults |-> {"timeout", "error"},
            handlers |-> <<>>, recalls |-> <<>>]

\* one backend task without retries, and a second execute_task call on it;
\* the adapter's claims are true or name a file that does not exist
InitTwoCalls ==
  /\ InitCommon
  /\ config \in {c \in OrchestratorConfigs :
                   /\ c.verification_required
                   /\ c.auto_retry_on_verification_failure
                   /\ ~c.enable_preflight_checks
                   /\ ~c.enable_postflight_validation
                   /\ c.adapters = {"default"}
                   /\ c.max_concurrent_tasks = DefaultMaxConcurrentTasks}
  /\ env = [ids |-> {1},
            task_configs |->
              {c \in TaskConfigs : /\ c.domain = "backend"
                                   /\ c.max_retries = 0
                                   /\ c.expected_artifacts = {}},
            claims |->
              {[changes |-> <<[file_path |-> p, action |-> "modified"]>>,
                artifacts |-> {}, output |-> CleanOutput] : p \in {FooTs, GhostTs}},
            faults |-> {},
            handlers |-> <<>>, recalls |-> [c \in {2} |-> 1]]

\* one client task on an orchestrator with event handlers registered by
\* on(): none, or for one event a handler that raises followed by one that
\* does not, or a raising handler between two others
InitHandlers ==
  /\ InitCommon
  /\ config \in {c \in OrchestratorConfigs :
                   /\ c.auto_retry_on_verification_failure
                   /\ c.enable_preflight_checks
                   /\ c.enable_postflight_validation
                   /\ c.max_concurrent_tasks = DefaultMaxConcurrentTasks}
  /\ \E hs \in {<<>>}
              \cup {<<[event |-> e, raises |-> TRUE], [event |-> e, raises |-> FALSE]>> :
                      e \in {"task.created", "task.completed", "task.retry_scheduled"}}
              \cup {<<[event |-> "task.failed", raises |-> FALSE],
                      [event |-> "task.verification_failed", raises |-> TRUE],
                      [event |-> "task.failed", raises |-> TRUE],
                      [event |-> "task.failed", raises |-> FALSE]>>} :
       env = [ids |-> {1},
              task_configs |-> {c \in TaskConfigs : c.domain = "backend"},
              claims |-> AnyAdapter.claims, faults |-> AnyAdapter.faults,
              handlers |-> hs, recalls |-> <<>>]

\* ------------------------------------------------------------ actions
\* the task an execute_task call works on: self._tasks.get(task_id).  A call
\* has the id of its task, except a further call on a task that is already
\* being executed, which env.recalls maps to its task
TaskOf(t) == IF t \in DOMAIN env.recalls THEN env.recalls[t] ELSE t

(*
  The runs of the handlers in _emit_event for the events evs: for each event
  in order, each handler registered for it (VitanaOrchestrator.on) in the
  order of registration.  env.handlers is the list of the registered
  handlers, each with its event and whether it raises.  With abort set, the
  handlers after a raising one do not run.
*)
RECURSIVE HandlerRuns(_, _)
HandlerRuns(evs, abort) ==
  IF evs = <<>> THEN <<>>
  ELSE LET e == Head(evs)
           n == Len(env.handlers)
           runs(i) == /\ env.handlers[i].event = e
                      /\ abort => \A j \in 1..(i - 1) :
                                    env.handlers[j].event = e => ~env.handlers[j].raises
           from[i \in 1..(n + 1)] ==
             IF i > n THEN <<>>
             ELSE (IF runs(i)
                     THEN <<[event |-> e, handler |-> i,
                             raised |-> env.handlers[i].raises]>>
                     ELSE <<>>) \o from[i + 1]
       IN from[1] \o HandlerRuns(Tail(evs), abort)

\* _emit_event with the handlers after a raising one dropped
Emit_until_handler_raises(t, evs) ==
  /\ emitted' = [emitted EXCEPT ![TaskOf(t)] = @ \o evs]
  /\ handler_calls' =
       [handler_calls EXCEPT ![TaskOf(t)] =
          @ \o HandlerRuns(evs, TRUE)]

\* VitanaOrchestrator._emit_event, once for every event of evs: the
\* handlers registered for the event run in the order of registration, an
\* exception of a handler is logged, and the event is appended to
\* task.oasis_events
Emit(t, evs) ==
  /\ emitted' = [emitted EXCEPT ![TaskOf(t)] = @ \o evs]
  /\ handler_calls' =
       [handler_calls EXCEPT ![TaskOf(t)] = @ \o HandlerRuns(evs, FALSE)]

SetTask(t, ts) == tasks' = [tasks EXCEPT ![TaskOf(t)] = ts]

Goto(t, l) == pc' = [pc EXCEPT ![t] = l]

\* a call of a method of the task's adapter
CallAdapter(t, method) ==
  adapter_calls' = [adapter_calls EXCEPT ![TaskOf(t)] = Append(@, method)]

\* VitanaOrchestrator.submit_task
submit_task(t) ==
  /\ pc[t] = "unsubmitted"
  /\ t \in env.ids
  /\ \E cfg \in env.task_configs : SetTask(t, to_task_state(cfg))
  /\ Emit(t, <<"task.created">>)
  /\ Goto(t, "idle")
  /\ UNCHANGED <<sleeps, gate, call, config, env, subtask, adapter_calls, claim, outcome, reason>>

\* VitanaOrchestrator.execute_task, entry
execute_task(t) ==
  /\ pc[t] = "idle"
  /\ Goto(t, IF config.enable_preflight_checks THEN "preflight" ELSE "loop")
  /\ UNCHANGED <<sleeps, gate, call, config, env, subtask, adapter_calls, tasks, claim, outcome, reason, emitted, handler_calls>>

\* a further execute_task(task_id) on a task that was submitted: the call
\* gets the same TaskState from self._tasks, whatever another call is doing
\* with it
execute_task_again(t) ==
  /\ pc[t] = "unsubmitted"
  /\ t \in DOMAIN env.recalls
  /\ pc[TaskOf(t)] # "unsubmitted"
  /\ Goto(t, IF config.enable_preflight_checks THEN "preflight" ELSE "loop")
  /\ UNCHANGED <<sleeps, gate, call, config, env, subtask, adapter_calls, tasks, claim, outcome, reason, emitted, handler_calls>>

\* VitanaOrchestrator._run_preflight: the checks pass and only fill metadata
run_preflight(t) ==
  /\ pc[t] = "preflight"
  /\ Emit(t, <<"task.preflight.start", "task.preflight.complete">>)
  /\ Goto(t, "loop")
  /\ UNCHANGED <<sleeps, gate, call, config, env, subtask, adapter_calls, tasks, claim, outcome, reason>>

\* _execute_with_verification_loop: the loop condition and the retry limit;
\* the locals of the previous iteration (result, verification) are gone
loop_head(t) ==
  /\ pc[t] = "loop"
  /\ Goto(t, IF is_terminal(tasks[TaskOf(t)])
               THEN (IF config.enable_postflight_validation
                       THEN "postflight" ELSE "returned")
             ELSE IF retries_exhausted(tasks[TaskOf(t)])
               THEN "except"
             ELSE "dispatch")
  /\ claim' = [claim EXCEPT ![t] = NoClaim]
  /\ outcome' = [outcome EXCEPT ![t] = NoOutcome]
  /\ reason' = [reason EXCEPT ![t] = None]
  /\ UNCHANGED <<sleeps, gate, call, config, env, subtask, adapter_calls, tasks, emitted, handler_calls>>

\* _dispatch_mixed_task: stages = [MEMORY, BACKEND, FRONTEND]
stages == <<"memory", "backend", "frontend">>

\* where a call stands in _dispatch_mixed_task: before the test of stage k;
\* after the last stage _dispatch_task returns and the loop waits for a claim
StagePc(k) ==
  CASE k = 1 -> "stage_memory" [] k = 2 -> "stage_backend"
    [] k = 3 -> "stage_frontend" [] OTHER -> "wait"

\* ... and in "await self.execute_task(subtask.task_id)" of stage k
AwaitPc(k) ==
  CASE k = 1 -> "sub_memory" [] k = 2 -> "sub_backend" [] OTHER -> "sub_frontend"

\* VitanaOrchestrator._dispatch_task: status ROUTING
dispatch_task(t) ==
  /\ pc[t] = "dispatch"
  /\ SetTask(t, [tasks[TaskOf(t)] EXCEPT !.status = "routing"])
  /\ Emit(t, <<"task.routing">>)
  /\ Goto(t, IF tasks[TaskOf(t)].domain = "mixed" THEN StagePc(1) ELSE "routed")
  /\ UNCHANGED <<sleeps, gate, call, config, env, subtask, adapter_calls, claim, outcome, reason>>

\* VitanaOrchestrator.get_adapter
has_adapter(domain) == domain \in config.adapters \/ "default" \in config.adapters

\* _dispatch_task: get_adapter, then status DISPATCHED; a TaskDispatchError
\* goes to the loop's handler, which schedules a retry
dispatch_adapter(t) ==
  /\ pc[t] = "routed"
  /\ IF has_adapter(tasks[TaskOf(t)].domain)
       THEN /\ SetTask(t, [tasks[TaskOf(t)] EXCEPT !.status = "dispatched"])
            /\ Emit(t, <<"task.dispatched">>)
            /\ Goto(t, "dispatched")
            /\ UNCHANGED reason
       ELSE /\ reason' = [reason EXCEPT ![t] = "dispatch_error"]
            /\ Goto(t, "retry")
            /\ UNCHANGED <<tasks, emitted, handler_calls>>
  /\ UNCHANGED <<sleeps, gate, call, config, env, subtask, adapter_calls, claim, outcome>>

\* _dispatch_task: status IN_PROGRESS
dispatch_started(t) ==
  /\ pc[t] = "dispatched"
  /\ SetTask(t, [tasks[TaskOf(t)] EXCEPT !.status = "in_progress"])
  /\ Emit(t, <<"task.started">>)
  /\ Goto(t, "wait")
  /\ UNCHANGED <<sleeps, gate, call, config, env, subtask, adapter_calls, claim, outcome, reason>>

\* the claim sent to verification whatever config.verification_required says
wait_claim_always_verified(t) ==
  /\ pc[t] = "wait"
  /\ has_adapter(tasks[TaskOf(t)].domain)
  /\ \E c \in env.claims : claim' = [claim EXCEPT ![t] = c]
  /\ Goto(t, "verify")
  /\ CallAdapter(t, "wait_for_completion")
  /\ UNCHANGED <<sleeps, gate, call, config, env, subtask, tasks, outcome, reason, emitted, handler_calls>>

\* _wait_for_completion: the adapter returns a claim
wait_claim(t) ==
  /\ pc[t] = "wait"
  /\ has_adapter(tasks[TaskOf(t)].domain)
  /\ \E c \in env.claims : claim' = [claim EXCEPT ![t] = c]
  /\ Goto(t, IF config.verification_required THEN "verify" ELSE "unverified")
  /\ CallAdapter(t, "wait_for_completion")
  /\ UNCHANGED <<sleeps, gate, call, config, env, subtask, tasks, outcome, reason, emitted, handler_calls>>

\* the timeout handled like any other exception of the loop: a retry
wait_timeout_retried(t) ==
  /\ pc[t] = "wait"
  /\ has_adapter(tasks[TaskOf(t)].domain)
  /\ "timeout" \in env.faults
  /\ SetTask(t, [tasks[TaskOf(t)] EXCEPT !.status = "timeout", !.error = "timed_out"])
  /\ Emit(t, <<"task.timeout">>)
  /\ reason' = [reason EXCEPT ![t] = "unexpected_error"]
  /\ Goto(t, "retry")
  /\ CallAdapter(t, "wait_for_completion")
  /\ UNCHANGED <<sleeps, gate, call, config, env, subtask, claim, outcome>>

\* _wait_for_completion raises asyncio.TimeoutError: status TIMEOUT, then
\* the loop raises OrchestratorError
wait_timeout(t) ==
  /\ pc[t] = "wait"
  /\ has_adapter(tasks[TaskOf(t)].domain)
  /\ "timeout" \in env.faults
  /\ SetTask(t, [tasks[TaskOf(t)] EXCEPT !.status = "timeout", !.error = "timed_out"])
  /\ Emit(t, <<"task.timeout">>)
  /\ Goto(t, "except")
  /\ CallAdapter(t, "wait_for_completion")
  /\ UNCHANGED <<sleeps, gate, call, config, env, subtask, claim, outcome, reason>>

\* the adapter raises another exception: the loop's last handler
wait_error(t) ==
  /\ pc[t] = "wait"
  /\ has_adapter(tasks[TaskOf(t)].domain)
  /\ "error" \in env.faults
  /\ SetTask(t, [tasks[TaskOf(t)] EXCEPT !.error_history = Append(@, "loop")])
  /\ reason' = [reason EXCEPT ![t] = "unexpected_error"]
  /\ Goto(t, "retry")
  /\ CallAdapter(t, "wait_for_completion")
  /\ UNCHANGED <<sleeps, gate, call, config, env, subtask, claim, outcome, emitted, handler_calls>>

\* _verify_completion without the assignment of task.verification_result
record_passed_dropped(ts) == ts

\* _verify_completion, "All checks passed": task.verification_result = PASSED
record_passed(ts) == [ts EXCEPT !.verification_result = "passed"]

\* VitanaOrchestrator._verify_completion: status VERIFYING and the checks
verify_completion_step(t) ==
  /\ pc[t] = "verify"
  /\ LET ts == [tasks[TaskOf(t)] EXCEPT !.status = "verifying",
                                !.verification_attempts = @ + 1]
         o == verify_completion(ts, claim[t])
     IN /\ outcome' = [outcome EXCEPT ![t] = o]
        /\ SetTask(t, IF o.result = "passed" THEN record_passed(ts) ELSE ts)
  /\ Emit(t, <<"task.verifying">>)
  /\ Goto(t, "verified")
  /\ UNCHANGED <<sleeps, gate, call, config, env, subtask, adapter_calls, claim, reason>>

\* the loop's branches, with cannot_verify treated as terminal
loop_branch_fail_on_cannot_verify(result) ==
  CASE result = "passed"      -> "complete"
    [] result = "failed"      -> "verification_failure"
    [] result = "partial"     -> "partial"
    [] result = "needs_retry" -> "needs_retry"
    [] OTHER                  -> "partial"

\* _execute_with_verification_loop: the branch taken on verification.result
loop_branch(result) ==
  CASE result = "passed"      -> "complete"
    [] result = "failed"      -> "verification_failure"
    [] result = "partial"     -> "partial"
    [] result = "needs_retry" -> "needs_retry"
    [] OTHER                  -> "inconclusive"

\* the loop, PASSED: status COMPLETED
mark_completed(t) ==
  /\ pc[t] = "verified"
  /\ loop_branch(outcome[t].result) = "complete"
  /\ SetTask(t, [tasks[TaskOf(t)] EXCEPT !.status = "completed", !.result = claim[t]])
  /\ Emit(t, <<"task.completed">>)
  /\ Goto(t, "loop")
  /\ UNCHANGED <<sleeps, gate, call, config, env, subtask, adapter_calls, claim, outcome, reason>>

\* the loop, verification not required: status COMPLETED on the claim alone
complete_unverified(t) ==
  /\ pc[t] = "unverified"
  /\ SetTask(t, [tasks[TaskOf(t)] EXCEPT !.status = "completed", !.result = claim[t]])
  /\ Emit(t, <<"task.completed">>)
  /\ Goto(t, "loop")
  /\ UNCHANGED <<sleeps, gate, call, config, env, subtask, adapter_calls, claim, outcome, reason>>

\* VitanaOrchestrator._handle_verification_failure: status VERIFICATION_FAILED
handle_verification_failure(t) ==
  /\ pc[t] = "verified"
  /\ loop_branch(outcome[t].result) = "verification_failure"
  /\ SetTask(t, [tasks[TaskOf(t)] EXCEPT !.status = "verification_failed",
                                 !.verification_result = "failed"])
  /\ Emit(t, <<"task.verification_failed">>)
  /\ Goto(t, "verification_failed")
  /\ UNCHANGED <<sleeps, gate, call, config, env, subtask, adapter_calls, claim, outcome, reason>>

\* _handle_verification_failure: retry, or status FAILED
verification_failure_decide(t) ==
  /\ pc[t] = "verification_failed"
  /\ IF config.auto_retry_on_verification_failure /\ can_retry(tasks[TaskOf(t)])
       THEN /\ SetTask(t, [tasks[TaskOf(t)] EXCEPT
                             !.retry_reasons = Append(@, "verification_failed")])
            /\ reason' = [reason EXCEPT ![t] = outcome[t].reason]
            /\ Goto(t, "retry")
            /\ UNCHANGED <<emitted, handler_calls>>
       ELSE /\ SetTask(t, [tasks[TaskOf(t)] EXCEPT !.status = "failed",
                                           !.error = "verification_failed"])
            /\ Emit(t, <<"task.failed">>)
            /\ Goto(t, "loop")
            /\ UNCHANGED reason
  /\ UNCHANGED <<sleeps, gate, call, config, env, subtask, adapter_calls, claim, outcome>>

\* VitanaOrchestrator._handle_partial_completion: _verify_completion never
\* puts "remaining_work" in the details, so the else branch is taken
handle_partial_completion(t) ==
  /\ pc[t] = "verified"
  /\ loop_branch(outcome[t].result) = "partial"
  /\ SetTask(t, [tasks[TaskOf(t)] EXCEPT !.status = "failed", !.error = "partial"])
  /\ Emit(t, <<"task.needs_review">>)
  /\ Goto(t, "loop")
  /\ UNCHANGED <<sleeps, gate, call, config, env, subtask, adapter_calls, claim, outcome, reason>>

\* the loop, NEEDS_RETRY or anything else: _schedule_retry
retry_inconclusive(t) ==
  /\ pc[t] = "verified"
  /\ loop_branch(outcome[t].result) \in {"needs_retry", "inconclusive"}
  /\ reason' = [reason EXCEPT ![t] =
                  IF loop_branch(outcome[t].result) = "needs_retry"
                    THEN outcome[t].reason ELSE "verification_inconclusive"]
  /\ Goto(t, "retry")
  /\ UNCHANGED <<sleeps, gate, call, config, env, subtask, adapter_calls, tasks, claim, outcome, emitted, handler_calls>>

\* a backoff that grows by retry_delay_ms with every retry
retry_delay_linear(cfg, retry_count) == cfg.retry_delay_ms * retry_count

\* _schedule_retry, "Calculate backoff delay": delay_ms
retry_delay(cfg, retry_count) ==
  cfg.retry_delay_ms * cfg.retry_backoff_multiplier ^ (retry_count - 1)

\* a _schedule_retry that never gives up: the retry is scheduled whatever
\* the retry count
schedule_retry_without_limit(t) ==
  /\ pc[t] = "retry"
  /\ LET ts == [tasks[TaskOf(t)] EXCEPT !.retry_count = @ + 1,
                                !.retry_reasons = Append(@, reason[t])]
     IN /\ SetTask(t, [ts EXCEPT !.status = "retry_pending"])
        /\ Emit(t, <<"task.retry_scheduled">>)
        /\ Goto(t, "sleep")
        /\ sleeps' = [sleeps EXCEPT ![t] =
                        Append(@, retry_delay(config, ts.retry_count))]
  /\ UNCHANGED <<gate, call, config, env, subtask, adapter_calls, claim, outcome, reason>>

\* VitanaOrchestrator._schedule_retry up to the backoff sleep, which is
\* entered with delay_ms
schedule_retry(t) ==
  /\ pc[t] = "retry"
  /\ LET ts == [tasks[TaskOf(t)] EXCEPT !.retry_count = @ + 1,
                                !.retry_reasons = Append(@, reason[t])]
     IN IF retries_exhausted(ts)
          THEN /\ SetTask(t, [ts EXCEPT !.status = "failed",
                                        !.error = "max_retries_exceeded"])
               /\ Emit(t, <<"task.failed">>)
               /\ Goto(t, "loop")
               /\ UNCHANGED sleeps
          ELSE /\ SetTask(t, [ts EXCEPT !.status = "retry_pending"])
               /\ Emit(t, <<"task.retry_scheduled">>)
               /\ Goto(t, "sleep")
               /\ sleeps' = [sleeps EXCEPT ![t] =
                               Append(@, retry_delay(config, ts.retry_count))]
  /\ UNCHANGED <<gate, call, config, env, subtask, adapter_calls, claim, outcome, reason>>

\* _schedule_retry after asyncio.sleep: status PENDING
retry_delay_elapsed(t) ==
  /\ pc[t] = "sleep"
  /\ SetTask(t, [tasks[TaskOf(t)] EXCEPT !.status = "pending"])
  /\ Goto(t, "loop")
  /\ UNCHANGED <<sleeps, gate, call, config, env, subtask, adapter_calls, claim, outcome, reason, emitted, handler_calls>>

\* execute_task, except Exception: status FAILED, task.failed, re-raise
execute_task_except(t) ==
  /\ pc[t] = "except"
  /\ SetTask(t, [tasks[TaskOf(t)] EXCEPT !.status = "failed",
                                 !.error = "exception",
                                 !.error_history = Append(@, "execution")])
  /\ Emit(t, <<"task.failed">>)
  /\ Goto(t, "raised")
  /\ UNCHANGED <<sleeps, gate, call, config, env, subtask, adapter_calls, claim, outcome, reason>>

(*
  The orchestrator has no cancel operation.  The one abort a client has is
  the cancellation of the coroutine that runs execute_task; it is delivered
  where the coroutine is suspended: in the adapter's wait_for_completion or
  in the backoff sleep.  asyncio.CancelledError is not an Exception, so no
  handler of the loop or of execute_task runs; the locals of the call are
  gone and the task keeps the status it had.
*)
cancel_request(t) ==
  LET a == IF subtask[t] # 0 THEN subtask[t] ELSE t   \* the call that is suspended
      gone == [x \in TaskIds |-> x \in {t, a}]
  IN
  /\ t \in env.ids
  /\ pc[a] \in {"wait", "sleep"}
  /\ pc[a] = "wait" => has_adapter(tasks[TaskOf(a)].domain)
  /\ IF pc[a] = "wait" THEN CallAdapter(a, "wait_for_completion")
                       ELSE UNCHANGED adapter_calls
  /\ claim' = [x \in TaskIds |-> IF gone[x] THEN NoClaim ELSE claim[x]]
  /\ outcome' = [x \in TaskIds |-> IF gone[x] THEN NoOutcome ELSE outcome[x]]
  /\ reason' = [x \in TaskIds |-> IF gone[x] THEN None ELSE reason[x]]
  /\ pc' = [x \in TaskIds |-> IF gone[x] THEN "cancelled" ELSE pc[x]]
  /\ subtask' = [subtask EXCEPT ![t] = 0]
  /\ UNCHANGED <<sleeps, gate, call, config, env, tasks, emitted, handler_calls>>

\* VitanaOrchestrator._run_postflight, then execute_task returns
run_postflight(t) ==
  /\ pc[t] = "postflight"
  /\ Emit(t, <<"task.postflight.start", "task.postflight.complete">>)
  /\ Goto(t, "returned")
  /\ UNCHANGED <<sleeps, gate, call, config, env, subtask, adapter_calls, tasks, claim, outcome, reason>>

\* TaskConfig(...) of _dispatch_mixed_task; metadata keeps its default
subtask_config(ts, stage_domain) ==
  [vtid |-> ts.vtid \o <<"-", stage_domain>>,
   title |-> <<CASE stage_domain = "memory" -> "[memory] "
                 [] stage_domain = "backend" -> "[backend] "
                 [] OTHER -> "[frontend] ">> \o ts.title,
   description |-> ts.description,
   domain |-> stage_domain,
   target_paths |-> paths_of_domain(ts.target_paths, stage_domain),
   change_budget |-> <<>>,
   max_retries |-> ts.max_retries,
   expected_artifacts |-> {}]

\* the ids submit_task has not given out
FreeIds == {c \in TaskIds \ (env.ids \cup DOMAIN env.recalls) : pc[c] = "unsubmitted"}

\* _dispatch_mixed_task, one stage: a relevant domain gets a sub-task, which
\* is submitted (task.created); its execute_task call is awaited
dispatch_mixed_task(t) ==
  \E k \in 1..Len(stages) :
    /\ pc[t] = StagePc(k)
    /\ IF is_domain_relevant(tasks[TaskOf(t)], stages[k])
         THEN /\ FreeIds # {}
              /\ LET c == CHOOSE x \in FreeIds : \A y \in FreeIds : x <= y
                 IN /\ tasks' = [tasks EXCEPT ![c] =
                                   to_task_state(subtask_config(tasks[TaskOf(t)], stages[k]))]
                    /\ Emit(c, <<"task.created">>)
                    /\ pc' = [pc EXCEPT ![t] = AwaitPc(k), ![c] = "idle"]
                    /\ subtask' = [subtask EXCEPT ![t] = c]
         ELSE /\ Goto(t, StagePc(k + 1))
              /\ UNCHANGED <<tasks, emitted, handler_calls, subtask>>
    /\ UNCHANGED <<sleeps, gate, call, config, env, adapter_calls, claim, outcome, reason>>

\* _dispatch_mixed_task: the sub-task's execute_task returned, whatever the
\* sub-task's status; changes_made of a task is never filled, so the extend
\* adds nothing
subtask_returned(t) ==
  \E k \in 1..Len(stages) :
    /\ pc[t] = AwaitPc(k)
    /\ pc[subtask[t]] = "returned"
    /\ Goto(t, StagePc(k + 1))
    /\ subtask' = [subtask EXCEPT ![t] = 0]
    /\ UNCHANGED <<sleeps, gate, call, config, env, adapter_calls, tasks, claim, outcome, reason, emitted, handler_calls>>

\* the sub-task's execute_task raised: the exception leaves
\* _dispatch_mixed_task and reaches the loop's last handler
subtask_raised(t) ==
  \E k \in 1..Len(stages) :
    /\ pc[t] = AwaitPc(k)
    /\ pc[subtask[t]] = "raised"
    /\ SetTask(t, [tasks[TaskOf(t)] EXCEPT !.error_history = Append(@, "loop")])
    /\ reason' = [reason EXCEPT ![t] = "unexpected_error"]
    /\ Goto(t, "retry")
    /\ subtask' = [subtask EXCEPT ![t] = 0]
    /\ UNCHANGED <<sleeps, gate, call, config, env, adapter_calls, claim, outcome, emitted, handler_calls>>

\* _wait_for_completion: get_adapter raises TaskDispatchError (only a mixed
\* task gets here without an adapter)
wait_no_adapter(t) ==
  /\ pc[t] = "wait"
  /\ ~has_adapter(tasks[TaskOf(t)].domain)
  /\ reason' = [reason EXCEPT ![t] = "dispatch_error"]
  /\ Goto(t, "retry")
  /\ UNCHANGED <<sleeps, gate, call, config, env, subtask, adapter_calls, tasks, claim, outcome, emitted, handler_calls>>

\* ------------------------------------------------ stage gate steps
orchestrator_vars ==
  <<config, env, tasks, pc, claim, outcome, reason, emitted, adapter_calls, subtask,
    sleeps, handler_calls>>

\* a request posted to the OASIS gateway by _emit_oasis_event; rid stands
\* for the uuid of the event
Post(event, status, rid, delivery) ==
  [event |-> event, status |-> status, rid |-> rid, delivery |-> delivery]

\* verify entered without the start event
gate_verify_silent ==
  /\ gate.pc = "idle"
  /\ \E a \in GateArgs :
       gate' = [pc |-> "checks", args |-> a, result |-> StageGateResult0,
                posts |-> <<>>]
  /\ UNCHANGED <<orchestrator_vars, call>>

\* VerificationStageGate.verify, entry: the start event is posted and the
\* result object created
gate_verify ==
  /\ gate.pc = "idle"
  /\ \E a \in GateArgs, delivery \in DeliveryOutcomes :
       gate' = [pc |-> "checks", args |-> a, result |-> StageGateResult0,
                posts |-> <<Post("vtid.stage.verification.start", "start", 1, delivery)>>]
  /\ UNCHANGED <<orchestrator_vars, call>>

\* verify, the try block up to the call of _emit_verification_complete
gate_run_checks ==
  /\ gate.pc = "checks"
  /\ gate' = [gate EXCEPT !.pc = "complete", !.result = stage_gate_checks(gate.args)]
  /\ UNCHANGED <<orchestrator_vars, call>>

\* _emit_verification_complete with a failed delivery treated as an error of
\* the verification
gate_emit_verification_complete_strict ==
  /\ gate.pc = "complete"
  /\ \E delivery \in DeliveryOutcomes :
       LET rid == Len(gate.posts) + 1
           r == gate.result
       IN gate' = [gate EXCEPT
                     !.pc = "returned",
                     !.posts = Append(@, Post(IF r.passed
                                                THEN "vtid.stage.verification.passed"
                                                ELSE "vtid.stage.verification.failed",
                                              IF r.passed THEN "success" ELSE "fail",
                                              rid, delivery)),
                     !.result = IF delivery = "ok"
                                  THEN [r EXCEPT !.oasis_event_id = rid]
                                  ELSE [CheckRaised(r) EXCEPT !.passed = FALSE]]
  /\ UNCHANGED <<orchestrator_vars, call>>

\* VerificationStageGate._emit_verification_complete, then verify returns
\* the result
gate_emit_verification_complete ==
  /\ gate.pc = "complete"
  /\ \E delivery \in DeliveryOutcomes :
       LET rid == Len(gate.posts) + 1
           r == gate.result
       IN gate' = [gate EXCEPT
                     !.pc = "returned",
                     !.posts = Append(@, Post(IF r.passed
                                                THEN "vtid.stage.verification.passed"
                                                ELSE "vtid.stage.verification.failed",
                                              IF r.passed THEN "success" ELSE "fail",
                                              rid, delivery)),
                     !.result = [r EXCEPT !.oasis_event_id =
                                            emit_oasis_event(rid, delivery)]]
  /\ UNCHANGED <<orchestrator_vars, call>>

\* ------------------------------------------------ library calls
\* target paths handed to SafetyChecker.check_task
SafetyPaths ==
  {".env", ".ENV", ".git/config", "config/.env.local", "deploy/.env.production",
   "config/Credentials.json", "config/serviceAccountKey.json",
   "Secrets/prod.txt", "web/node_modules/x.js", "app/__pycache__/m.pyc",
   "services/gateway/src/routes/api.ts",
   "services/gateway/src/frontend/App.tsx", "file0.ts"}

\* the TaskConfig fields check_task reads
SafetyTasks ==
  [target_paths : SeqsUpTo(SafetyPaths, MaxTargetPaths),
   change_budget : {<<>>, [k \in {"max_files"} |-> 1]}]

\* titles, descriptions and target paths handed to detect_domain
DetectTitles ==
  {"Update UI component", "Add API endpoint", "Add database migration",
   "Full stack feature", "Generic task", "Update files"}

DetectDescriptions ==
  {"", "Fix button styling", "Create REST controller", "Create Supabase table",
   "Add UI, API endpoint, and database table", "Do something"}

DetectPaths ==
  {"services/gateway/src/frontend/component.tsx",
   "services/gateway/src/routes/api.ts",
   "supabase/migrations/001_users.sql",
   "docs/index.html",
   "README.md"}

\* tasks and claims handed to CompletionVerifier.verify
VerifierTasks ==
  {to_task_state([cfg EXCEPT !.domain = d]) :
     cfg \in {c \in TaskConfigs : c.domain = "backend" /\ c.max_retries = 0},
     d \in TaskDomain}

VerifierClaims ==
  [changes : SeqsUpTo(GateChange, MaxChanges),
   artifacts : SUBSET Artifacts,
   output : {CleanOutput}]

Call(fn, args, result) == [fn |-> fn, args |-> args, result |-> result]

\* a call of SafetyChecker.check_task
call_check_task ==
  /\ call.fn = None
  /\ \E task \in SafetyTasks : call' = Call("check_task", task, check_task(task))
  /\ UNCHANGED <<orchestrator_vars, gate>>

\* a call of main.detect_domain
call_detect_domain ==
  /\ call.fn = None
  /\ \E title \in DetectTitles, description \in DetectDescriptions,
        target_paths \in SeqsUpTo(DetectPaths, MaxTargetPaths) :
       call' = Call("detect_domain",
                    [title |-> title, description |-> description,
                     target_paths |-> target_paths],
                    detect_domain(title, description, target_paths))
  /\ UNCHANGED <<orchestrator_vars, gate>>

\* a call of CompletionVerifier.verify
call_verifier_verify ==
  /\ call.fn = None
  /\ \E cfg \in VerificationConfigs, ts \in VerifierTasks, c \in VerifierClaims,
        started \in BOOLEAN :
       call' = Call("verify",
                    [config |-> cfg, task |-> ts, claimed_result |-> c,
                     started |-> started],
                    verifier_verify(cfg, ts, c, started))
  /\ UNCHANGED <<orchestrator_vars, gate>>

Next ==
  \E t \in TaskIds :
    \/ submit_task(t)
    \/ execute_task(t)
    \/ run_preflight(t)
    \/ loop_head(t)
    \/ dispatch_task(t)
    \/ dispatch_adapter(t)
    \/ dispatch_started(t)
    \/ wait_claim(t)
    \/ wait_timeout(t)
    \/ wait_error(t)
    \/ verify_completion_step(t)
    \/ mark_completed(t)
    \/ complete_unverified(t)
    \/ handle_verification_failure(t)
    \/ verification_failure_decide(t)
    \/ handle_partial_completion(t)
    \/ retry_inconclusive(t)
    \/ schedule_retry(t)
    \/ retry_delay_elapsed(t)
    \/ execute_task_except(t)
    \/ cancel_request(t)
    \/ run_postflight(t)

\* the steps of a run with mixed tasks
NextMixed ==
  \/ Next
  \/ \E t \in TaskIds :
       \/ dispatch_mixed_task(t)
       \/ subtask_returned(t)
       \/ subtask_raised(t)
       \/ wait_no_adapter(t)

Spec == Init /\ [][Next]_vars

SpecConc == InitConc /\ [][Next]_vars

SpecHandlers == InitHandlers /\ [][Next]_vars

\* _dispatch_task while the task was routed fewer than MaxDispatches times
dispatch_task_bounded(t) ==
  /\ Count(emitted[TaskOf(t)], "task.routing") < MaxDispatches
  /\ dispatch_task(t)

\* the steps of two execute_task calls on one task: no pre-flight and
\* post-flight phase, an adapter that always returns a claim, no retry left
NextTwoCalls ==
  \E t \in TaskIds :
    \/ submit_task(t) \/ execute_task(t) \/ execute_task_again(t)
    \/ loop_head(t) \/ dispatch_task_bounded(t) \/ dispatch_adapter(t)
    \/ dispatch_started(t) \/ wait_claim(t) \/ verify_completion_step(t)
    \/ mark_completed(t) \/ handle_verification_failure(t)
    \/ verification_failure_decide(t) \/ cancel_request(t)

SpecTwoCalls == InitTwoCalls /\ [][NextTwoCalls]_vars

SpecMixed == InitMixed /\ [][NextMixed]_vars

\* the steps of the mixed task that may be retried: every claim of its
\* adapters names a readable path, so no verification is inconclusive
NextMixedRetry ==
  \E t \in TaskIds :
    \/ submit_task(t) \/ execute_task(t) \/ run_preflight(t) \/ loop_head(t)
    \/ dispatch_task(t) \/ dispatch_adapter(t) \/ dispatch_started(t)
    \/ wait_claim(t) \/ wait_timeout(t) \/ wait_error(t)
    \/ verify_completion_step(t) \/ mark_completed(t) \/ complete_unverified(t)
    \/ handle_verification_failure(t) \/ verification_failure_decide(t)
    \/ handle_partial_completion(t)
    \/ schedule_retry(t) \/ retry_delay_elapsed(t) \/ execute_task_except(t)
    \/ cancel_request(t) \/ run_postflight(t)
    \/ dispatch_mixed_task(t) \/ subtask_returned(t) \/ subtask_raised(t)
    \/ wait_no_adapter(t)

SpecMixedRetry == InitMixedRetry /\ [][NextMixedRetry]_vars

\* one client task with up to MaxBackoffRetries retries under several
\* settings of the backoff; any adapter behaviour
InitBackoff ==
  /\ InitCommon
  /\ config \in {[c EXCEPT !.retry_delay_ms = d, !.retry_backoff_multiplier = m] :
                   c \in {c \in OrchestratorConfigs :
                            /\ c.auto_retry_on_verification_failure
                            /\ c.enable_preflight_checks
                            /\ c.enable_postflight_validation
                            /\ c.adapters = {"default"}
                            /\ c.max_concurrent_tasks = DefaultMaxConcurrentTasks},
                   d \in {DefaultRetryDelayMs, 500},
                   m \in {DefaultRetryBackoffMultiplier, 3}}
  /\ env = [ids |-> {1},
            task_configs |->
              {[cfg EXCEPT !.max_retries = n] :
                 cfg \in {c \in TaskConfigs : c.domain = "backend" /\ c.max_retries = 0},
                 n \in 0..MaxBackoffRetries},
            claims |-> AnyAdapter.claims, faults |-> AnyAdapter.faults,
            handlers |-> <<>>, recalls |-> <<>>]

SpecBackoff == InitBackoff /\ [][Next]_vars

\* the verification service: no task is submitted to an orchestrator
InitService ==
  /\ InitCommon
  /\ config \in {c \in OrchestratorConfigs :
                   /\ c.verification_required
                   /\ c.auto_retry_on_verification_failure
                   /\ c.enable_preflight_checks
                   /\ c.enable_postflight_validation
                   /\ c.adapters = {}
                   /\ c.max_concurrent_tasks = DefaultMaxConcurrentTasks}
  /\ env = [ids |-> {}, task_configs |-> {}, claims |-> {}, faults |-> {},
            handlers |-> <<>>, recalls |-> <<>>]

\* one call of VerificationStageGate.verify
NextGate ==
  \/ gate_verify
  \/ gate_run_checks
  \/ gate_emit_verification_complete

SpecGate == InitService /\ [][NextGate]_vars

\* one call of a function of the library
NextFn ==
  \/ call_check_task
  \/ call_detect_domain
  \/ call_verifier_verify

SpecFn == InitService /\ [][NextFn]_vars

\* ===================================================================
\* Properties
\* ===================================================================

Finished(t) == pc[t] \in {"returned", "raised"}

Last(q) == q[Len(q)]

C2_Scenario(t) ==
  /\ config.verification_required
  /\ config.auto_retry_on_verification_failure
  /\ has_adapter(tasks[t].domain)
  /\ tasks[t].domain # "memory"
  /\ env.faults = {}
  /\ \A c \in env.claims : FalseCompletion(c)

\* C2: false completions are caught.  When every wait of the adapter returns
\* a claim naming a non-deleted file that is missing from the workspace, the
\* task is never completed, and when execute_task has finished the task is
\* failed after exactly max_retries + 1 verifications, all failed, with
\* max_retries + 1 task.verification_failed events and one task.failed event.
C2_FalseCompletionsCaught ==
  \A t \in TaskIds :
    (pc[t] # "unsubmitted" /\ C2_Scenario(t)) =>
      /\ tasks[t].status # "completed"
      /\ Count(emitted[t], "task.completed") = 0
      /\ Finished(t) =>
           /\ tasks[t].status = "failed"
           /\ tasks[t].verification_attempts = tasks[t].max_retries + 1
           /\ Count(emitted[t], "task.verification_failed") = tasks[t].max_retries + 1
           /\ Count(emitted[t], "task.failed") = 1

\* max_retries = 1: two false completions were rejected and the call returned
C2_Witness ==
  \E t \in TaskIds :
    /\ pc[t] # "unsubmitted" /\ C2_Scenario(t)
    /\ Finished(t)
    /\ tasks[t].max_retries = 1
    /\ Count(emitted[t], "task.verification_failed") = 2
    /\ Count(emitted[t], "task.failed") = 1

\* C3: a task whose claim carries output that fails the safety output scan
\* never reaches status completed.
C3_UnsafeOutputNeverCompleted ==
  \A t \in TaskIds :
    tasks[t].status = "completed" => check_output(tasks[t].result.output).safe

\* the declared transition graph of the task status
DeclaredTransitions ==
  {<<"pending", "routing">>, <<"routing", "dispatched">>,
   <<"dispatched", "in_progress">>, <<"in_progress", "verifying">>,
   <<"in_progress", "timeout">>, <<"verifying", "completed">>,
   <<"verifying", "retry_pending">>, <<"verifying", "failed">>,
   <<"retry_pending", "pending">>}
  \cup {<<st, "cancelled">> :
          st \in TaskStatus \ {"completed", "failed", "timeout", "cancelled"}}

\* C4: every status change of a submitted task is a declared transition; in
\* particular none leaves a terminal status.
C4_OnlyDeclaredTransitions ==
  [][\A t \in TaskIds :
       (pc[t] # "unsubmitted" /\ tasks'[t].status # tasks[t].status) =>
         <<tasks[t].status, tasks'[t].status>> \in DeclaredTransitions]_vars

\* every attempt of t so far ended in a failed verification or in a dispatch
\* error: each dispatch that found an adapter led to one failed verification
C5_OnlyRetriableFailures(t) ==
  /\ config.auto_retry_on_verification_failure
  /\ Count(emitted[t], "task.dispatched") = Count(emitted[t], "task.verification_failed")
  /\ Count(emitted[t], "task.timeout") = 0
  /\ Count(emitted[t], "task.needs_review") = 0

\* C5: max_retries = N permits exactly N + 1 attempts.  A task is never
\* dispatched more than N + 1 times, and a task that failed after nothing but
\* failed verifications and dispatch errors was dispatched exactly N + 1 times.
C5_ExactlyMaxRetriesPlusOneAttempts ==
  \A t \in TaskIds :
    pc[t] # "unsubmitted" =>
      /\ Count(emitted[t], "task.routing") <= tasks[t].max_retries + 1
      /\ (tasks[t].status = "failed" /\ C5_OnlyRetriableFailures(t)) =>
           Count(emitted[t], "task.routing") = tasks[t].max_retries + 1

\* max_retries = 1: one failed verification, one retry, a second failed
\* verification, then failed
C5_Witness ==
  \E t \in TaskIds :
    /\ pc[t] # "unsubmitted"
    /\ tasks[t].status = "failed"
    /\ C5_OnlyRetriableFailures(t)
    /\ tasks[t].max_retries = 1
    /\ Count(emitted[t], "task.routing") = 2
    /\ Count(emitted[t], "task.verification_failed") = 2

\* C6: retry_count never decreases and len(retry_reasons) = retry_count.
C6_ReasonPerRetry ==
  [][\A t \in TaskIds :
       (pc[t] # "unsubmitted") =>
         /\ tasks'[t].retry_count >= tasks[t].retry_count
         /\ Len(tasks'[t].retry_reasons) = tasks'[t].retry_count]_vars

\* C7: a task in a terminal status has emitted exactly one terminal event,
\* a task in any other status none.
C7_OneTerminalEvent ==
  \A t \in TaskIds :
    pc[t] # "unsubmitted" =>
      CountIn(emitted[t], TerminalEvents) = (IF is_terminal(tasks[t]) THEN 1 ELSE 0)

\* C8: at most max_concurrent_tasks execute_task calls are in flight.
C8_ConcurrencyLimit ==
  Cardinality({t \in TaskIds : InFlight(t)}) <= config.max_concurrent_tasks

\* C9: after a verification that failed on a validator's critical issue
\* (retriable = false) no retry is scheduled: the task is failed directly.
C9_CriticalIssueNotRetried ==
  \A t \in TaskIds :
    (outcome[t].result = "failed" /\ ~outcome[t].validation.retriable) =>
      /\ pc[t] \notin {"retry", "sleep"}
      /\ tasks[t].status \in {"verifying", "verification_failed", "failed"}

C11_PartialIsRetried ==
  \A t \in TaskIds :
    (outcome[t].result = "partial" /\ tasks[t].retry_count < tasks[t].max_retries) =>
      ~is_terminal(tasks[t])

\* C12: a task whose wait for the claim timed out has status timeout when
\* execute_task has finished.
C12_TimeoutStatusKept ==
  \A t \in TaskIds :
    (Finished(t) /\ Count(emitted[t], "task.timeout") > 0) =>
      tasks[t].status = "timeout"

\* the position of the first event e in q
FirstIndex(q, e) == CHOOSE i \in 1..Len(q) : q[i] = e /\ \A j \in 1..(i - 1) : q[j] # e

\* the position of the last event e of q before position i
LastIndexBefore(q, e, i) ==
  CHOOSE r \in 1..(i - 1) : q[r] = e /\ \A j \in (r + 1)..(i - 1) : q[j] # e

VerificationEvents ==
  {"task.verifying", "task.verification_failed", "task.needs_review", "task.completed"}

\* C13: a timeout is terminal on first occurrence.  Once task.timeout was
\* emitted the task stays terminal, there is one timeout only, nothing but
\* task.failed follows it (no routing, no dispatch, no verification),
\* retry_count is the number of retries scheduled before it, and no
\* verification step or event lies between the attempt's routing and the
\* timeout.
C13_TimeoutIsTerminalOnFirstOccurrence ==
  \A t \in TaskIds :
    Count(emitted[t], "task.timeout") > 0 =>
      LET q == emitted[t]
          i == FirstIndex(q, "task.timeout")
          r == LastIndexBefore(q, "task.routing", i)
      IN /\ Count(q, "task.timeout") = 1
         /\ is_terminal(tasks[t])
         /\ pc[t] \in {"except", "raised"}
         /\ \A j \in (i + 1)..Len(q) : q[j] = "task.failed"
         /\ \A j \in r..i : q[j] \notin VerificationEvents
         /\ tasks[t].retry_count = Count(q, "task.retry_scheduled")
         /\ tasks[t].verification_attempts = Count(q, "task.verifying")

\* the second attempt of a task timed out after one retry, and the call ended
C13_Witness ==
  \E t \in TaskIds :
    /\ Count(emitted[t], "task.timeout") = 1
    /\ pc[t] = "raised"
    /\ tasks[t].retry_count = 1
    /\ Count(emitted[t], "task.routing") = 2

\* C14: when a task has timed out, the orchestrator has called the cancel
\* method of the task's adapter exactly once.
C14_AdapterCancelledOnTimeout ==
  \A t \in TaskIds :
    Count(emitted[t], "task.timeout") > 0 => Count(adapter_calls[t], "cancel") = 1

\* C15: after a cancel request the task is cancelled and the terminal cancel
\* event was emitted.
C15_CancelRequestCancels ==
  \A t \in TaskIds :
    pc[t] = "cancelled" =>
      /\ tasks[t].status = "cancelled"
      /\ Count(emitted[t], "task.cancelled") = 1

\* C16: a task that fails the pre-flight safety check (a forbidden target
\* path, or more target files or directories than its budget allows) is
\* never dispatched to an adapter.
C16_UnsafeTaskNeverDispatched ==
  \A t \in TaskIds :
    (pc[t] # "unsubmitted" /\ ~check_task(tasks[t]).safe) =>
      /\ Count(emitted[t], "task.dispatched") = 0
      /\ adapter_calls[t] = <<>>

\* c is a sub-task of the mixed task t: its vtid is f"{t.vtid}-{domain}"
IsSubtaskOf(c, t) ==
  /\ pc[c] # "unsubmitted" /\ pc[t] # "unsubmitted"
  /\ tasks[t].domain = "mixed"
  /\ tasks[c].vtid = tasks[t].vtid \o <<"-", tasks[c].domain>>

\* C17: if a sub-task of a mixed task ends in a terminal status other than
\* completed, the parent is never completed, and it is failed when its
\* execute_task has finished.
C17_FailedSubtaskFailsParent ==
  \A t, c \in TaskIds :
    (IsSubtaskOf(c, t) /\ is_terminal(tasks[c]) /\ tasks[c].status # "completed") =>
      /\ tasks[t].status # "completed"
      /\ Finished(t) => tasks[t].status = "failed"

\* C18: if every sub-task of a mixed task is completed, the parent is
\* completed when its execute_task has finished.
C18_CompletedSubtasksCompleteParent ==
  \A t \in TaskIds :
    (/\ Finished(t)
     /\ \E c \in TaskIds : IsSubtaskOf(c, t)
     /\ \A c \in TaskIds : IsSubtaskOf(c, t) => tasks[c].status = "completed") =>
      tasks[t].status = "completed"

\* C19: when _dispatch_mixed_task has gone through its stages, the mixed
\* task has a sub-task for every domain whose path globs match one of its
\* target paths.
C19_SubtaskPerMatchingDomain ==
  \A t \in TaskIds :
    (pc[t] = "wait" /\ tasks[t].domain = "mixed") =>
      \A k \in 1..Len(stages) :
        (\E i \in 1..Len(tasks[t].target_paths) :
           path_matches_domain(tasks[t].target_paths[i], stages[k])) =>
          \E c \in TaskIds : IsSubtaskOf(c, t) /\ tasks[c].domain = stages[k]

\* C20: a task that is failed after a false completion (a verification that
\* ended in failed) has emitted at least one task.verification_failed event
\* and has a non-empty retry_reasons list, whatever its max_retries.
C20_FalseCompletionFailureHasReason ==
  \A t \in TaskIds :
    (tasks[t].status = "failed" /\ tasks[t].verification_result = "failed") =>
      /\ Count(emitted[t], "task.verification_failed") >= 1
      /\ tasks[t].retry_reasons # <<>>

C22_TwoLedgerEventsInOrder ==
  LET events == [i \in 1..Len(gate.posts) |-> gate.posts[i].event]
  IN /\ gate.pc = "idle" => events = <<>>
     /\ gate.pc \in {"checks", "complete"} =>
          events = <<"vtid.stage.verification.start">>
     /\ gate.pc = "returned" =>
          events = <<"vtid.stage.verification.start",
                     IF gate.result.passed THEN "vtid.stage.verification.passed"
                     ELSE "vtid.stage.verification.failed">>
     /\ \A t \in TaskIds : emitted[t] = <<>>

\* a call that raised inside its checks has returned after the start event
\* and the failed event
C22_Witness ==
  /\ gate.pc = "returned"
  /\ gate.result.reason = "verification_error"
  /\ gate.result.verification_result = "cannot_verify"
  /\ Len(gate.posts) = 2
  /\ gate.posts[1].event = "vtid.stage.verification.start"
  /\ gate.posts[2].event = "vtid.stage.verification.failed"

\* C23: when the claimed output fails the safety scan, the stage gate
\* returns passed = false with verification_result failed, checks_failed
\* exactly [safety_output] and recommended_action fail, and runs no later
\* check: safety_output is the only check run, whatever the claimed changes
\* are (a change that would make a later check fail or raise has no effect).
C23_UnsafeOutputFailsAtOnce ==
  (gate.pc \in {"complete", "returned"}
     /\ ~check_output(gate.args.claimed_output).safe) =>
    /\ ~gate.result.passed
    /\ gate.result.verification_result = "failed"
    /\ gate.result.reason = "safety"
    /\ gate.result.checks_failed = << <<"safety_output">> >>
    /\ gate.result.checks_run = << <<"safety_output">> >>
    /\ gate.result.checks_passed = <<>>
    /\ gate.result.recommended_action = "fail"

\* the gate has returned on an unsafe output whose claim names a path that
\* makes the existence check raise
C23_Witness ==
  /\ gate.pc = "returned"
  /\ ~check_output(gate.args.claimed_output).safe
  /\ gate.args.claimed_changes = <<[file_path |-> BadPath, action |-> "modified"]>>
  /\ gate.result.recommended_action = "fail"
  /\ gate.posts[2].event = "vtid.stage.verification.failed"

\* C24: a failure to deliver a ledger event (exception, timeout or non-200
\* response) never raises into the stage gate and never changes its verdict:
\* passed, verification_result, reason, the check lists and
\* recommended_action of the returned result are what the checks computed
\* from the arguments, whatever happened to the two posts; only
\* oasis_event_id differs, and it is the id of the completion event when its
\* delivery succeeded and None otherwise.
C24_DeliveryFailureKeepsVerdict ==
  /\ gate.pc \in {"idle", "checks", "complete", "returned"}
  /\ gate.pc = "complete" => gate.result = stage_gate_checks(gate.args)
  /\ gate.pc = "returned" =>
       /\ [gate.result EXCEPT !.oasis_event_id = None] = stage_gate_checks(gate.args)
       /\ gate.result.oasis_event_id =
            (IF gate.posts[2].delivery = "ok" THEN gate.posts[2].rid ELSE None)

\* a claim passed every check although neither event was delivered
C24_Witness ==
  /\ gate.pc = "returned"
  /\ gate.posts[1].delivery = "timeout"
  /\ gate.posts[2].delivery = "exception"
  /\ gate.result.passed
  /\ gate.result.recommended_action = "complete"
  /\ gate.result.oasis_event_id = None

\* C25: an error during verification never yields a passed result: when a
\* claimed file that the domain's validator reads cannot be read, the stage
\* gate's outcome is cannot_verify with recommended action manual_review.
C25_UnreadableFileCannotVerify ==
  (/\ gate.pc = "returned"
   /\ check_output(gate.args.claimed_output).safe
   /\ gate.args.domain \in {"backend", "mixed"}
   /\ \E i \in probed(gate.args.claimed_changes) :
        /\ gate.args.claimed_changes[i].file_path = LockedTs
        /\ ~Workspace[LockedTs].readable) =>
    /\ ~gate.result.passed
    /\ gate.result.verification_result = "cannot_verify"
    /\ gate.result.recommended_action = "manual_review"

\* C26: verifying a claim with an empty change list for a task whose domain
\* is not memory yields failed, never passed: here for
\* CompletionVerifier.verify, whose outcome on such a claim is not passed.
C26_EmptyChangesNeverPass ==
  (/\ call.fn = "verify"
   /\ call.args.claimed_result.changes = <<>>
   /\ call.args.task.domain # "memory") =>
    call.result.result # "passed"

\* C27: a change with action deleted is exempt from the existence check: a
\* claim whose absent paths are all claimed as deleted is never failed for a
\* missing file, here by the orchestrator's verification step.
C27_DeletedExemptFromExistence ==
  \A t \in TaskIds :
    (/\ pc[t] = "verified"
     /\ \A i \in 1..Len(claim[t].changes) :
          /\ claim[t].changes[i].file_path \in Paths
          /\ (~file_exists(claim[t].changes[i].file_path) =>
                claim[t].changes[i].action = "deleted")) =>
      outcome[t].reason # "missing_files"

\* C28: check_task rejects (safe = false, the path listed in blocked_items)
\* every task with a target path that contains, compared case-insensitively,
\* an entry of the forbidden set: .git, .env, .env.local, .env.production,
\* credentials.json, serviceAccountKey.json, secrets/, node_modules/,
\* __pycache__/.
C28_ForbiddenPathsRejected ==
  call.fn = "check_task" =>
    \A i \in 1..Len(call.args.target_paths) :
      (\E f \in {".git", ".env", ".env.local", ".env.production",
                 "credentials.json", "serviceAccountKey.json", "secrets/",
                 "node_modules/", "__pycache__/"} :
         Contains(Lower(Chars(call.args.target_paths[i])), Lower(Chars(f)))) =>
        /\ ~call.result.safe
        /\ \E k \in 1..Len(call.result.blocked_items) :
             call.result.blocked_items[k] = call.args.target_paths[i]

\* C29: detect_domain classifies by target paths alone: a task with no
\* keyword hit in its title or description whose only target path lies under
\* services/gateway/src/frontend/ is classified frontend, not backend or
\* mixed.
C29_FrontendPathIsFrontend ==
  (/\ call.fn = "detect_domain"
   /\ \A d \in {"frontend", "backend", "memory"} :
        keyword_score(call.args.title, call.args.description, d) = 0
   /\ Len(call.args.target_paths) = 1
   /\ path_matches_pattern(call.args.target_paths[1],
                           "services/gateway/src/frontend/**")) =>
    call.result = "frontend"

\* C30: detect_domain returns backend when no domain scores above 0, the
\* single domain with a positive score when exactly one scores above 0, and
\* mixed whenever two or more domains score above 0; the size of the scores
\* never changes the result.
C30_ResultFromPositiveScores ==
  call.fn = "detect_domain" =>
    LET scores == domain_scores(call.args.title, call.args.description,
                                call.args.target_paths)
        positive == {d \in DOMAIN scores : scores[d] > 0}
    IN call.result =
         (IF positive = {} THEN "backend"
          ELSE IF Cardinality(positive) = 1 THEN CHOOSE d \in positive : TRUE
          ELSE "mixed")

\* a call was classified mixed although one domain scored higher than
\* another domain with a positive score
C30_Witness ==
  /\ call.fn = "detect_domain"
  /\ call.result = "mixed"
  /\ LET scores == domain_scores(call.args.title, call.args.description,
                                 call.args.target_paths)
     IN /\ scores["frontend"] > scores["memory"]
        /\ scores["memory"] > 0
        /\ scores["backend"] = 0

\* C31: the delay before the k-th retry of a task (k = retry_count after the
\* increment, 1 <= k <= max_retries) equals
\* retry_delay_ms * retry_backoff_multiplier^(k-1); the task stays in
\* retry_pending for that delay and only then returns to pending, and no
\* delay is taken once the retries are exhausted.
C31_ExponentialBackoff ==
  [][\A t \in TaskIds :
       pc'[t] # "unsubmitted" =>
         LET ts == tasks'[t]
             taken == sleeps'[t]
         IN /\ Len(taken) = (IF ts.retry_count > ts.max_retries
                               THEN ts.max_retries ELSE ts.retry_count)
            /\ \A k \in 1..Len(taken) :
                 taken[k] = config.retry_delay_ms
                              * config.retry_backoff_multiplier ^ (k - 1)
            /\ pc'[t] = "sleep" => ts.status = "retry_pending"
            /\ (pc[t] # "unsubmitted" /\ tasks[t].status = "retry_pending"
                  /\ ts.status # "retry_pending") =>
                 pc[t] = "sleep" /\ ts.status = "pending"
            /\ (pc[t] # "unsubmitted" /\ Len(taken) > Len(sleeps[t])) =>
                 /\ pc'[t] = "sleep"
                 /\ Len(taken) = ts.retry_count
                 /\ ts.retry_count = tasks[t].retry_count + 1]_vars

\* a task is pending again after its third retry was delayed by
\* retry_delay_ms * 3^2
C31_Witness ==
  \E t \in TaskIds :
    /\ pc[t] # "unsubmitted"
    /\ config.retry_backoff_multiplier = 3
    /\ tasks[t].retry_count = 3
    /\ tasks[t].status = "pending"
    /\ sleeps[t] = <<config.retry_delay_ms, 3 * config.retry_delay_ms,
                     9 * config.retry_delay_ms>>

\* C32: the sub-tasks of a mixed task are submitted and executed in the
\* fixed order memory, backend, frontend, one at a time: when a sub-task is
\* submitted, every sub-task submitted before it for the same parent has a
\* domain earlier in the order and its execute_task has finished, and the
\* new sub-task's VTID is {parent.vtid}-{domain}.
C32_SubtasksInFixedOrder ==
  [][\A t, c \in TaskIds :
       (pc[c] = "unsubmitted" /\ subtask[t] = 0 /\ subtask'[t] = c) =>
         LET pos(d) == CHOOSE k \in 1..Len(stages) : stages[k] = d
         IN /\ pc'[c] = "idle"
            /\ tasks'[c].vtid = tasks[t].vtid \o <<"-", tasks'[c].domain>>
            /\ \A b \in TaskIds :
                 IsSubtaskOf(b, t) =>
                   /\ Finished(b)
                   /\ pos(tasks[b].domain) < pos(tasks'[c].domain)]_vars

\* C33: CompletionVerifier.verify runs its enabled stages in the order
\* files_exist, files_modified, domain_validation, tests, artifacts and
\* stops at the first failing stage: the checks map holds results only for
\* enabled stages up to and including the failing one, none of them left
\* out, every entry before the last passed, and a failed or partial outcome
\* takes result and reason from the failing stage, the last one recorded
\* (failed for the first four stages, partial for artifacts); a passed
\* outcome has a passing entry for every enabled stage.
C33_StagesShortCircuit ==
  call.fn = "verify" =>
    LET cfg == call.args.config
        checks == call.result.checks
        n == Len(checks)
        on == enabled_stages(cfg)
        StagePos(stage) == CHOOSE k \in 1..Len(verify_stages) : verify_stages[k] = stage
        stage_result(k) == verify_stage(verify_stages[k], call.args.task,
                                        call.args.claimed_result, call.args.started)
    IN /\ \A i \in 1..n : StagePos(checks[i].stage) \in on
       /\ \A i, j \in 1..n : i < j => StagePos(checks[i].stage) < StagePos(checks[j].stage)
       /\ \A i \in 1..n : \A k \in on :
            k < StagePos(checks[i].stage) => \E j \in 1..n : checks[j].stage = verify_stages[k]
       /\ \A i \in 1..(n - 1) : checks[i].passed
       /\ \A i \in 1..n : checks[i].passed = stage_result(StagePos(checks[i].stage)).passed
       /\ call.result.result \in {"failed", "partial"} =>
            /\ n >= 1 /\ ~checks[n].passed
            /\ call.result.result =
                 (IF checks[n].stage = "artifacts" THEN "partial" ELSE "failed")
            /\ call.result.reason = stage_result(StagePos(checks[n].stage)).reason
       /\ call.result.result = "passed" =>
            /\ n = Cardinality(on)
            /\ \A i \in 1..n : checks[i].passed

\* files_modified fails after files_exist passed; the artifacts stage is
\* enabled and would fail too, but is not run
C33_Witness ==
  /\ call.fn = "verify"
  /\ call.args.config = DefaultVerificationConfig
  /\ call.args.task.expected_artifacts \ call.args.claimed_result.artifacts # {}
  /\ call.result.result = "failed"
  /\ call.result.reason = "not_modified"
  /\ call.result.checks = <<[stage |-> "files_exist", passed |-> TRUE],
                            [stage |-> "files_modified", passed |-> FALSE]>>

\* C34: for every stage disabled by its config toggle,
\* CompletionVerifier.verify still records an entry for that stage in the
\* outcome's checks map, with passed = true.
C34_DisabledStageRecordedAsPassed ==
  call.fn = "verify" =>
    \A k \in 1..Len(verify_stages) :
      k \notin enabled_stages(call.args.config) =>
        \E i \in 1..Len(call.result.checks) :
          /\ call.result.checks[i].stage = verify_stages[k]
          /\ call.result.checks[i].passed


\* C39: the orchestrator's built-in verification step (_verify_completion)
\* and CompletionVerifier.verify agree: for every task and claim over the
\* same workspace they return the same result (passed, failed, partial or
\* cannot_verify).
C39_VerifiersAgree ==
  (call.fn = "verify" /\ call.args.config = DefaultVerificationConfig) =>
    call.result.result =
      verify_completion(call.args.task, call.args.claimed_result).result


\* C36: a task is never marked completed on a claim whose success flag is
\* false (an adapter-reported failure), in any domain including memory.
C36_FailureClaimNeverCompletes ==
  \A t \in TaskIds :
    (pc[t] # "unsubmitted" /\ tasks[t].status = "completed") =>
      ~("success" \in DOMAIN tasks[t].result /\ ~tasks[t].result.success)


\* C38: for a task driven by a single execute_task call with
\* max_retries >= 0, retry_count <= max_retries + 1 in every reachable
\* state, and retry_count > max_retries only when the status is failed.
C38_RetryCountBounded ==
  \A t \in TaskIds :
    pc[t] # "unsubmitted" =>
      /\ tasks[t].max_retries >= 0
      /\ tasks[t].retry_count <= tasks[t].max_retries + 1
      /\ tasks[t].retry_count > tasks[t].max_retries => tasks[t].status = "failed"

\* a task with max_retries = 1 failed on its second retry request
C38_Witness ==
  \E t \in TaskIds :
    /\ pc[t] # "unsubmitted"
    /\ tasks[t].max_retries = 1
    /\ tasks[t].retry_count = 2
    /\ tasks[t].status = "failed"
    /\ Count(emitted[t], "task.retry_scheduled") = 1


\* C37: every execute_task call on a submitted task terminates (returns or
\* raises) after at most max_retries + 1 dispatch attempts, provided each
\* adapter wait returns, raises or times out; when it terminates the task
\* is in a terminal status.  A call has terminated when it returned, raised
\* an error of the orchestrator or raised the CancelledError of its
\* cancelled coroutine.
C37_CallEndsWithTerminalTask ==
  \A t \in TaskIds :
    pc[t] \in {"returned", "raised", "cancelled"} =>
      /\ Count(emitted[TaskOf(t)], "task.routing") <= tasks[TaskOf(t)].max_retries + 1
      /\ is_terminal(tasks[TaskOf(t)])


\* C35: completed is absorbing under any interleaving: once a task's status
\* becomes completed, no later step changes it, including a step of a second
\* execute_task call running concurrently on the same task id.
C35_CompletedIsAbsorbing ==
  [][\A t \in TaskIds :
       (pc[t] # "unsubmitted" /\ tasks[t].status = "completed") =>
         tasks'[t].status = "completed"]_vars


\* C40: an event handler that raises does not alter orchestration.  In
\* every step that emits events, every handler registered for an emitted
\* event runs, in the order of registration, those after a raising handler
\* included; the events are recorded on the task after the ones recorded
\* before; and the step ends where it ends without handlers: the call is
\* not sent to the retry or the exception path by the emission, and the
\* task has the status the event announces.
C40_RaisingHandlerChangesNothing ==
  [][\A t \in TaskIds :
       LET n == Len(emitted[t])
           new == SubSeq(emitted'[t], n + 1, Len(emitted'[t]))
           m == Len(handler_calls[t])
           runs == SubSeq(handler_calls'[t], m + 1, Len(handler_calls'[t]))
           hs == env.handlers
           due == {x \in (1..Len(new)) \X (1..Len(hs)) : hs[x[2]].event = new[x[1]]}
           announced == [e \in {"task.completed", "task.failed", "task.timeout",
                                "task.retry_scheduled", "task.verification_failed"} |->
                           CASE e = "task.completed" -> "completed"
                             [] e = "task.failed" -> "failed"
                             [] e = "task.timeout" -> "timeout"
                             [] e = "task.retry_scheduled" -> "retry_pending"
                             [] OTHER -> "verification_failed"]
       IN /\ Len(emitted'[t]) >= n
          /\ SubSeq(emitted'[t], 1, n) = emitted[t]
          /\ Len(handler_calls'[t]) >= m
          /\ SubSeq(handler_calls'[t], 1, m) = handler_calls[t]
          /\ Len(runs) = Cardinality(due)
          /\ \A x \in due :
               \E j \in 1..Len(runs) :
                 /\ runs[j].event = new[x[1]]
                 /\ runs[j].handler = x[2]
                 /\ runs[j].raised = hs[x[2]].raises
          /\ \A i, j \in 1..Len(runs) :
               (i < j /\ runs[i].event = runs[j].event) => runs[i].handler < runs[j].handler
          /\ new # <<>> =>
               /\ pc'[t] # "retry"
               /\ pc'[t] = "except" => new = <<"task.timeout">>
               /\ pc'[t] = "raised" => pc[t] = "except"
               /\ new[Len(new)] \in DOMAIN announced =>
                    tasks'[t].status = announced[new[Len(new)]]]_vars

\* the first handler of task.completed raised, the second ran after it, and
\* the call returned with the task completed
C40_Witness ==
  \E t \in TaskIds :
    /\ pc[t] = "returned"
    /\ tasks[t].status = "completed"
    /\ Count(emitted[t], "task.completed") = 1
    /\ handler_calls[t] = <<[event |-> "task.completed", handler |-> 1, raised |-> TRUE],
                            [event |-> "task.completed", handler |-> 2, raised |-> FALSE]>>

=============================================================================
